---- MODULE Spec2Model ----
(***************************************************************************)
(* Model of the rule-based screening-question engine                       *)
(* (backend/app/services/screening_service.py) and of the data shapes it   *)
(* reads (backend/app/models/schemas.py).                                  *)
(*                                                                         *)
(* Representation.                                                         *)
(*   str            a sequence of one-character strings                    *)
(*   Optional[T]    a sequence of length 0 (None) or 1 (the value)         *)
(*   List[T]        a sequence                                             *)
(*   f-string       the concatenation of its parts; a literal part is one  *)
(*                  atom holding the literal text, an interpolated field   *)
(*                  contributes its characters                             *)
(***************************************************************************)
EXTENDS Integers, Sequences, FiniteSets, TLC

\* candidate, job, questions, result, pc: one invocation followed statement
\* by statement.  frames, lists: several invocations in progress at once,
\* frames[p] the arguments, position and returned value of caller p's
\* invocation, lists[k] the list object k.
VARIABLES candidate, job, questions, result, pc, frames, lists

\* wire: the response body of the generate-questions endpoint as the client
\* receives it.  received: the lists the client parsed from it, one per
\* round trip.
VARIABLES wire, received

\* extract_candidate_data: its argument `text`, its local `lines` and the
\* Candidate it builds.
VARIABLES resume_text, lines, parsed

\* The service: the tables of the database, the module-level dict of
\* webhooks.py, the calls placed with the telephony provider, the process
\* environment, and the request last handled with its response.
VARIABLES candidates_table, jobs_table, calls_table, phone_to_candidate, outbound, environ, request, response

\* The connection pool of database.py (_pool): the connections checked
\* out, by key, and the idle ones; conns[t] the local `conn` of thread t's
\* get_db context and ctx[t] its position in it.
VARIABLES pool_used, pool_idle, conns, ctx

engineVars == <<candidate, job, questions, result, frames, lists>>
transportVars == <<wire, received>>
parserVars == <<resume_text, lines, parsed>>
serviceVars == <<candidates_table, jobs_table, calls_table, phone_to_candidate, outbound, environ, request, response>>
poolVars == <<pool_used, pool_idle, conns, ctx>>

\* the state the question engine has no access to
outsideEngine == <<transportVars, parserVars, serviceVars, poolVars>>

vars == <<engineVars, pc, outsideEngine>>

\* the parts of the state a specification leaves out hold nothing
EngineUnused ==
    /\ candidate = <<>> /\ job = <<>> /\ questions = <<>> /\ result = <<>>
    /\ frames = <<>> /\ lists = <<>>
TransportUnused == wire = <<>> /\ received = <<>>
ParserUnused == resume_text = <<>> /\ lines = <<>> /\ parsed = <<>>
ServiceUnused ==
    /\ candidates_table = <<>> /\ jobs_table = <<>> /\ calls_table = <<>>
    /\ phone_to_candidate = <<>> /\ outbound = <<>> /\ environ = <<>>
    /\ request = <<>> /\ response = <<>>
PoolUnused == pool_used = <<>> /\ pool_idle = <<>> /\ conns = <<>> /\ ctx = <<>>

----------------------------------------------------------------------------
(* Bounds of the explored input space.                                     *)

\* longest job.required_skills list
MaxRequired == 4
\* longest candidate.skills list
MaxSkills == 2
\* longest candidate.work_experience list
MaxWork == 2
\* number of callers invoking the engine at the same time
NumCallers == 2

----------------------------------------------------------------------------
(* Python values.                                                          *)

None == <<>>
Some(x) == <<x>>
IsNone(o) == Len(o) = 0
Value(o) == o[1]

\* a test for None in place of the truth value
TruthyStr_not_none(o) == ~IsNone(o)

\* bool(Optional[str]): None and "" are falsy
TruthyStr(o) == (~IsNone(o)) /\ Len(Value(o)) > 0

\* a test for None in place of the truth value
TruthyInt_not_none(o) == ~IsNone(o)

\* bool(Optional[int]): None and 0 are falsy
TruthyInt(o) == (~IsNone(o)) /\ Value(o) # 0

\* bool(list): the empty list is falsy
TruthyList(l) == Len(l) > 0

UpperCase == <<"A","B","C","D","E","F","G","H","I","J","K","L","M",
               "N","O","P","Q","R","S","T","U","V","W","X","Y","Z">>
LowerCase == <<"a","b","c","d","e","f","g","h","i","j","k","l","m",
               "n","o","p","q","r","s","t","u","v","w","x","y","z">>
Digits == <<"0","1","2","3","4","5","6","7","8","9">>
Whitespace == {" ", "\t", "\n", "\r", "\f"}

\* the lower-case letter of each upper-case letter
LowerOf == [ch \in {UpperCase[i] : i \in 1..26} |-> LowerCase[CHOOSE i \in 1..26 : UpperCase[i] = ch]]

LowerChar(ch) == IF ch \in DOMAIN LowerOf THEN LowerOf[ch] ELSE ch

\* str.lower()
str_lower(s) == [i \in 1..Len(s) |-> LowerChar(s[i])]

\* str.split() with no separator: maximal runs of non-whitespace characters
RECURSIVE SplitFrom(_, _, _)
SplitFrom(s, i, word) ==
    IF i > Len(s)
    THEN IF Len(word) > 0 THEN <<word>> ELSE <<>>
    ELSE IF s[i] \in Whitespace
         THEN (IF Len(word) > 0 THEN <<word>> ELSE <<>>) \o SplitFrom(s, i + 1, <<>>)
         ELSE SplitFrom(s, i + 1, Append(word, s[i]))

str_split(s) == SplitFrom(s, 1, <<>>)

\* == in place of in
str_contains_exact(haystack, needle) == haystack = needle

\* `needle in haystack` for two str values
str_contains(haystack, needle) ==
    \E i \in 0..(Len(haystack) - Len(needle)) :
        SubSeq(haystack, i + 1, i + Len(needle)) = needle

\* `x in lst` for a list
list_contains(lst, x) == \E i \in 1..Len(lst) : lst[i] = x

\* the slice dropped: the whole list
list_prefix_all(lst, n) == lst

\* lst[:n]
list_prefix(lst, n) == SubSeq(lst, 1, IF Len(lst) < n THEN Len(lst) ELSE n)

\* str(n) for an int
RECURSIVE NatToStr(_)
NatToStr(n) ==
    IF n < 10 THEN <<Digits[n + 1]>>
    ELSE Append(NatToStr(n \div 10), Digits[(n % 10) + 1])

int_str(n) == IF n < 0 THEN <<"-">> \o NatToStr(0 - n) ELSE NatToStr(n)

\* a literal part of an f-string
Lit(text) == <<text>>

\* f"{o}" for an Optional[str]: None prints as the word None
fmt_opt(o) == IF IsNone(o) THEN <<"N","o","n","e">> ELSE Value(o)

\* f"{o}" for an Optional[int]
fmt_opt_int(o) == IF IsNone(o) THEN <<"N","o","n","e">> ELSE int_str(Value(o))

\* the fallback dropped: the field formatted as it is
or_default_unchecked(o, default) == fmt_opt(o)

\* the fallback taken for None only
or_default_none_only(o, default) == IF IsNone(o) THEN default ELSE Value(o)

\* `o or default` for an Optional[str]
or_default(o, default) == IF TruthyStr(o) THEN Value(o) ELSE default

----------------------------------------------------------------------------
(* schemas.py                                                              *)

\* the source argument left out: the field keeps its default, None
ScreeningQuestion_unsourced(question, category, source) ==
    [question |-> question, category |-> category, source |-> None]

ScreeningQuestion(question, category, source) ==
    [question |-> question, category |-> category, source |-> Some(source)]

WorkExperience(job_title, company) ==
    [job_title |-> job_title, company |-> company,
     start_date |-> None, end_date |-> None, description |-> None]

Candidate(full_name, current_job_title, location, skills, work_experience, years_of_experience) ==
    [full_name |-> full_name, current_job_title |-> current_job_title,
     location |-> location, skills |-> skills,
     work_experience |-> work_experience,
     years_of_experience |-> years_of_experience]

JobDescription(title, company, required_skills, preferred_skills, location) ==
    [title |-> title, company |-> company,
     required_skills |-> required_skills,
     preferred_skills |-> preferred_skills, location |-> location]

----------------------------------------------------------------------------
(* screening_service.py: the five sub-generators.  Each builds its list by *)
(* successive appends, as the code does.                                   *)

generate_verification_questions(c, j) ==
    LET q0 == <<>>
        q1 == IF TruthyStr(c.current_job_title)
              THEN Append(q0, ScreeningQuestion(
                       Lit("Can you confirm your current role as ")
                           \o fmt_opt(c.current_job_title) \o Lit("?"),
                       "verification", "resume"))
              ELSE q0
        q2 == IF TruthyInt(c.years_of_experience)
              THEN Append(q1, ScreeningQuestion(
                       Lit("Your resume indicates about ")
                           \o fmt_opt_int(c.years_of_experience)
                           \o Lit(" years of experience. Is that accurate?"),
                       "verification", "resume"))
              ELSE q1
        q3 == IF TruthyStr(c.location) /\ TruthyStr(j.location)
              THEN Append(q2, ScreeningQuestion(
                       Lit("The role is based in ") \o fmt_opt(j.location)
                           \o Lit(". You're currently in ") \o fmt_opt(c.location)
                           \o Lit(". Would you be open to relocating or is remote work preferred?"),
                       "verification", "job_description"))
              ELSE q2
    IN  q3

\* the candidate's skills compared without lower-casing them
candidate_skills_verbatim(c) == c.skills

\* candidate_skills_lower = [s.lower() for s in candidate.skills]
candidate_skills_lower(c) == [i \in 1..Len(c.skills) |-> str_lower(c.skills[i])]

\* the body of the loop over job.required_skills[:3]
skill_question(skills_lower, required_skill) ==
    IF list_contains(skills_lower, str_lower(required_skill))
    THEN ScreeningQuestion(
             Lit("I see you have experience with ") \o required_skill
                 \o Lit(". Can you describe a project where you used this skill and what your specific contribution was?"),
             "skills", "resume")
    ELSE ScreeningQuestion(
             Lit("This role requires ") \o required_skill
                 \o Lit(". Do you have any experience with this, or related technologies?"),
             "skills", "job_description")

\* a skill already asked about is skipped
RECURSIVE SkillLoop_dedup(_, _, _, _)
SkillLoop_dedup(qs, skills_lower, top, i) ==
    IF i > Len(top) THEN qs
    ELSE IF list_contains(qs, skill_question(skills_lower, top[i]))
         THEN SkillLoop_dedup(qs, skills_lower, top, i + 1)
         ELSE SkillLoop_dedup(Append(qs, skill_question(skills_lower, top[i])), skills_lower, top, i + 1)

RECURSIVE SkillLoop(_, _, _, _)
SkillLoop(qs, skills_lower, top, i) ==
    IF i > Len(top) THEN qs
    ELSE SkillLoop(Append(qs, skill_question(skills_lower, top[i])), skills_lower, top, i + 1)

\* the preferred skills probed after the required ones
generate_skill_questions_preferred(c, j) ==
    SkillLoop(<<>>, candidate_skills_lower(c), list_prefix(j.required_skills \o j.preferred_skills, 3), 1)

generate_skill_questions(c, j) ==
    SkillLoop(<<>>, candidate_skills_lower(c), list_prefix(j.required_skills, 3), 1)

\* generate_experience_questions reads work_experience[0] under this guard
experience_guard(c) == TruthyList(c.work_experience)

\* IndexError: work_experience[0] evaluated on an empty list
experience_raises(c, j) == experience_guard(c) /\ Len(c.work_experience) = 0

\* the entry at the last index taken as the latest job
generate_experience_questions_last(c, j) ==
    LET q0 == <<>>
        q1 == IF experience_guard(c)
              THEN Append(q0, ScreeningQuestion(
                       Lit("Tell me about your role at ") \o c.work_experience[Len(c.work_experience)].company
                           \o Lit(". What were your main responsibilities?"),
                       "experience", "resume"))
              ELSE q0
        q2 == Append(q1, ScreeningQuestion(
                       Lit("What experience do you have that's most relevant to the ")
                           \o j.title \o Lit(" position?"),
                       "experience", "job_description"))
    IN  q2

generate_experience_questions(c, j) ==
    LET q0 == <<>>
        q1 == IF experience_guard(c)
              THEN Append(q0, ScreeningQuestion(
                       Lit("Tell me about your role at ") \o c.work_experience[1].company
                           \o Lit(". What were your main responsibilities?"),
                       "experience", "resume"))
              ELSE q0
        q2 == Append(q1, ScreeningQuestion(
                       Lit("What experience do you have that's most relevant to the ")
                           \o j.title \o Lit(" position?"),
                       "experience", "job_description"))
    IN  q2

\* the guard testing job.title only
pivot_guard_job_only(c, j) == Len(j.title) > 0

\* `if candidate.current_job_title and job.title:`
pivot_guard(c, j) == TruthyStr(c.current_job_title) /\ Len(j.title) > 0

\* AttributeError: .lower() evaluated on None inside the guarded block
role_fit_raises(c, j) == pivot_guard(c, j) /\ IsNone(c.current_job_title)

\* all() in place of any()
all_words_in(job_title_lower, words) ==
    \A i \in 1..Len(words) : str_contains(job_title_lower, words[i])

\* any(word in job_title_lower for word in words)
any_word_in(job_title_lower, words) ==
    \E i \in 1..Len(words) : str_contains(job_title_lower, words[i])

generate_role_fit_questions(c, j) ==
    LET q0 == <<>>
        q1 == Append(q0, ScreeningQuestion(
                       Lit("What attracted you to apply for the ") \o j.title
                           \o Lit(" role at ")
                           \o or_default(j.company, Lit("our company")) \o Lit("?"),
                       "motivation", "job_description"))
        q2 == Append(q1, ScreeningQuestion(
                       Lit("Where do you see yourself in 2-3 years, and how does this role fit into that?"),
                       "motivation", "general"))
        q3 == IF pivot_guard(c, j)
              THEN LET candidate_title_lower == str_lower(Value(c.current_job_title))
                       job_title_lower == str_lower(j.title)
                   IN  IF ~any_word_in(job_title_lower, str_split(candidate_title_lower))
                       THEN Append(q2, ScreeningQuestion(
                                Lit("Your background is in ") \o Value(c.current_job_title)
                                    \o Lit(", but you're applying for ") \o j.title
                                    \o Lit(". What's driving this career transition?"),
                                "motivation", "resume"))
                       ELSE q2
              ELSE q2
    IN  q3

\* the availability question filed under the experience category
generate_gap_questions_experience(c, j) ==
    Append(<<>>, ScreeningQuestion(
               Lit("What is your availability to start? Are you currently in a notice period?"),
               "experience", "general"))

\* the placeholder emitting nothing
generate_gap_questions_none(c, j) == <<>>

\* a question about the gap added when the work history has several entries
generate_gap_questions_detecting(c, j) ==
    LET q0 == <<>>
        q1 == IF Len(c.work_experience) > 1
              THEN Append(q0, ScreeningQuestion(
                       Lit("I noticed a gap in your work history. Can you tell me about it?"),
                       "logistics", "resume"))
              ELSE q0
    IN  Append(q1, ScreeningQuestion(
               Lit("What is your availability to start? Are you currently in a notice period?"),
               "logistics", "general"))

generate_gap_questions(c, j) ==
    Append(<<>>, ScreeningQuestion(
               Lit("What is your availability to start? Are you currently in a notice period?"),
               "logistics", "general"))

----------------------------------------------------------------------------
(* Input values.                                                           *)

JaneDoe == <<"J","a","n","e"," ","D","o","e">>
DataAnalyst == <<"D","a","t","a"," ","A","n","a","l","y","s","t">>
MarketingManager == <<"M","a","r","k","e","t","i","n","g"," ","M","a","n","a","g","e","r">>
SeniorSoftwareEngineer == <<"S","e","n","i","o","r"," ","S","o","f","t","w","a","r","e"," ","E","n","g","i","n","e","e","r">>
DataEngineer == <<"D","a","t","a"," ","E","n","g","i","n","e","e","r">>
SoftwareEngineer == <<"S","o","f","t","w","a","r","e"," ","E","n","g","i","n","e","e","r">>
Blank == <<" ", "\t">>
EmptyStr == <<>>
Python == <<"P","y","t","h","o","n">>
python == <<"p","y","t","h","o","n">>
SQL == <<"S","Q","L">>
Spark == <<"S","p","a","r","k">>
Acme == <<"A","c","m","e">>
Initech == <<"I","n","i","t","e","c","h">>
Austin == <<"A","u","s","t","i","n">>
Remote == <<"R","e","m","o","t","e">>

\* all sequences over S of length at most n
SeqsUpTo(S, n) == UNION {[1..k -> S] : k \in 0..n}

CandidateTitles == {None, Some(EmptyStr), Some(Blank), Some(DataAnalyst), Some(MarketingManager), Some(SeniorSoftwareEngineer)}
JobTitles == {EmptyStr, DataEngineer, SoftwareEngineer}
YearsValues == {None, Some(0), Some(3)}
CandidateLocations == {None, Some(EmptyStr), Some(Austin)}
JobLocations == {None, Some(EmptyStr), Some(Remote)}
Companies == {None, Some(EmptyStr), Some(Acme)}
Y2015 == <<"2","0","1","5">>
Y2016 == <<"2","0","1","6">>
Y2019 == <<"2","0","1","9">>
Present == <<"p","r","e","s","e","n","t">>
\* an older position, and a current one that starts three years after it ended
AcmeJob == [WorkExperience(DataAnalyst, Acme) EXCEPT !.start_date = Some(Y2015), !.end_date = Some(Y2016)]
InitechJob == [WorkExperience(DataAnalyst, Initech) EXCEPT !.start_date = Some(Y2019), !.end_date = Some(Present)]
WorkEntries == {AcmeJob, InitechJob}
CandidateSkillNames == {SQL, Python, python}
JobSkillNames == {Python, Spark, SQL}

\* the skill lists: <<candidate.skills, required_skills, preferred_skills>>
AllSkillInputs == SeqsUpTo(CandidateSkillNames, MaxSkills) \X SeqsUpTo(JobSkillNames, MaxRequired) \X {<<>>}
RefSkillInputs == {<<(<<SQL, Python>>), (<<Python, Spark, SQL>>), (<<>>)>>, <<(<<python>>), (<<Spark, Python>>), (<<SQL>>)>>}

\* the other fields: <<current_job_title, years_of_experience, location,
\* work_experience, job.title, job.company, job.location>>
AllProfileInputs == CandidateTitles \X YearsValues \X CandidateLocations \X SeqsUpTo(WorkEntries, MaxWork) \X JobTitles \X Companies \X JobLocations
RefProfileInputs == {<<None, None, None, (<<>>), DataEngineer, None, None>>, <<Some(MarketingManager), Some(3), Some(Austin), (<<InitechJob>>), SoftwareEngineer, Some(Acme), Some(Remote)>>}

\* the skill lists of scenario A
ScenarioSkillInputs == {<<(<<SQL, Python>>), (<<Python, Spark, SQL>>), (<<>>)>>}

\* every profile against the skill lists of scenario A, and every
\* combination of skill lists against the reference profiles
Inputs == (AllProfileInputs \X ScenarioSkillInputs) \cup (RefProfileInputs \X (AllSkillInputs \cup RefSkillInputs))

InputCandidate(in) == Candidate(JaneDoe, in[1][1], in[1][3], in[2][1], in[1][4], in[1][2])
InputJob(in) == JobDescription(in[1][5], in[1][6], in[2][2], in[2][3], in[1][7])

----------------------------------------------------------------------------
(* generate_screening_questions, one action per statement.                 *)

\* list.extend replaced by an insertion at the front
list_extend_front(lst, items) == items \o lst

\* list.extend
list_extend(lst, items) == lst \o items

Init ==
    /\ \E in \in Inputs : candidate = InputCandidate(in) /\ job = InputJob(in)
    /\ questions = <<>>
    /\ result = None
    /\ pc = "call"
    /\ frames = <<>>
    /\ lists = <<>>
    /\ TransportUnused /\ ParserUnused /\ ServiceUnused /\ PoolUnused

\* questions: List[ScreeningQuestion] = []
Begin ==
    /\ pc = "call"
    /\ questions' = <<>>
    /\ pc' = "verification"
    /\ UNCHANGED <<candidate, job, result, frames, lists, outsideEngine>>

ExtendVerification ==
    /\ pc = "verification"
    /\ questions' = list_extend(questions, generate_verification_questions(candidate, job))
    /\ pc' = "skills"
    /\ UNCHANGED <<candidate, job, result, frames, lists, outsideEngine>>

\* required_skills cut down to its first three entries in place
ExtendSkills_truncating ==
    /\ pc = "skills"
    /\ questions' = list_extend(questions, generate_skill_questions(candidate, job))
    /\ job' = [job EXCEPT !.required_skills = list_prefix(@, 3)]
    /\ pc' = "experience"
    /\ UNCHANGED <<candidate, result, frames, lists, outsideEngine>>

ExtendSkills ==
    /\ pc = "skills"
    /\ questions' = list_extend(questions, generate_skill_questions(candidate, job))
    /\ pc' = "experience"
    /\ UNCHANGED <<candidate, job, result, frames, lists, outsideEngine>>

ExtendExperience ==
    /\ pc = "experience"
    /\ IF experience_raises(candidate, job)
       THEN pc' = "raised" /\ UNCHANGED questions
       ELSE /\ questions' = list_extend(questions, generate_experience_questions(candidate, job))
            /\ pc' = "role_fit"
    /\ UNCHANGED <<candidate, job, result, frames, lists, outsideEngine>>

ExtendRoleFit ==
    /\ pc = "role_fit"
    /\ IF role_fit_raises(candidate, job)
       THEN pc' = "raised" /\ UNCHANGED questions
       ELSE /\ questions' = list_extend(questions, generate_role_fit_questions(candidate, job))
            /\ pc' = "gap"
    /\ UNCHANGED <<candidate, job, result, frames, lists, outsideEngine>>

ExtendGap ==
    /\ pc = "gap"
    /\ questions' = list_extend(questions, generate_gap_questions(candidate, job))
    /\ pc' = "return"
    /\ UNCHANGED <<candidate, job, result, frames, lists, outsideEngine>>

\* return questions
Return ==
    /\ pc = "return"
    /\ result' = Some(questions)
    /\ pc' = "returned"
    /\ UNCHANGED <<candidate, job, questions, frames, lists, outsideEngine>>

Next ==
    \/ Begin
    \/ ExtendVerification
    \/ ExtendSkills
    \/ ExtendExperience
    \/ ExtendRoleFit
    \/ ExtendGap
    \/ Return

Spec == Init /\ [][Next]_vars

----------------------------------------------------------------------------
(* Several invocations in progress at once, each by its own caller         *)
(* (candidates.py, generate_questions and initiate_call, one per request). *)
(* The steps of different invocations interleave; a caller whose           *)
(* invocation has ended may invoke again.                                  *)

Callers == 1..NumCallers

\* the arguments the callers pass
CallInputs == RefProfileInputs \X RefSkillInputs

\* the frame of a new invocation
NewFrame(c, j) == [candidate |-> c, job |-> j, result |-> None, pc |-> "call"]

\* one list object for all invocations
local_list_shared(p) == 1

\* the list object the local name `questions` of p's invocation is bound
\* to: its own
local_list(p) == p

InitCalls ==
    /\ frames \in [Callers -> {NewFrame(InputCandidate(in), InputJob(in)) : in \in CallInputs}]
    /\ lists = [k \in Callers |-> <<>>]
    /\ candidate = None
    /\ job = None
    /\ questions = <<>>
    /\ result = None
    /\ pc = "unused"
    /\ TransportUnused /\ ParserUnused /\ ServiceUnused /\ PoolUnused

\* p's invocation appends the questions `produced` and moves to `next`
CallExtend(p, produced, next) ==
    /\ lists' = [lists EXCEPT ![local_list(p)] = list_extend(@, produced)]
    /\ frames' = [frames EXCEPT ![p].pc = next]

\* p's invocation fails with an exception
CallRaise(p) ==
    /\ frames' = [frames EXCEPT ![p].pc = "raised"]
    /\ UNCHANGED lists

\* the list of the previous invocation kept
CallBegin_keeping(p) ==
    /\ frames[p].pc = "call"
    /\ frames' = [frames EXCEPT ![p].pc = "verification"]
    /\ UNCHANGED <<lists, candidate, job, questions, result, pc, outsideEngine>>

\* questions: List[ScreeningQuestion] = []
CallBegin(p) ==
    /\ frames[p].pc = "call"
    /\ lists' = [lists EXCEPT ![local_list(p)] = <<>>]
    /\ frames' = [frames EXCEPT ![p].pc = "verification"]
    /\ UNCHANGED <<candidate, job, questions, result, pc, outsideEngine>>

CallExtendVerification(p) ==
    /\ frames[p].pc = "verification"
    /\ CallExtend(p, generate_verification_questions(frames[p].candidate, frames[p].job), "skills")
    /\ UNCHANGED <<candidate, job, questions, result, pc, outsideEngine>>

CallExtendSkills(p) ==
    /\ frames[p].pc = "skills"
    /\ CallExtend(p, generate_skill_questions(frames[p].candidate, frames[p].job), "experience")
    /\ UNCHANGED <<candidate, job, questions, result, pc, outsideEngine>>

CallExtendExperience(p) ==
    /\ frames[p].pc = "experience"
    /\ IF experience_raises(frames[p].candidate, frames[p].job)
       THEN CallRaise(p)
       ELSE CallExtend(p, generate_experience_questions(frames[p].candidate, frames[p].job), "role_fit")
    /\ UNCHANGED <<candidate, job, questions, result, pc, outsideEngine>>

CallExtendRoleFit(p) ==
    /\ frames[p].pc = "role_fit"
    /\ IF role_fit_raises(frames[p].candidate, frames[p].job)
       THEN CallRaise(p)
       ELSE CallExtend(p, generate_role_fit_questions(frames[p].candidate, frames[p].job), "gap")
    /\ UNCHANGED <<candidate, job, questions, result, pc, outsideEngine>>

CallExtendGap(p) ==
    /\ frames[p].pc = "gap"
    /\ CallExtend(p, generate_gap_questions(frames[p].candidate, frames[p].job), "return")
    /\ UNCHANGED <<candidate, job, questions, result, pc, outsideEngine>>

\* return questions
CallReturn(p) ==
    /\ frames[p].pc = "return"
    /\ frames' = [frames EXCEPT ![p].result = Some(lists[local_list(p)]), ![p].pc = "returned"]
    /\ UNCHANGED <<lists, candidate, job, questions, result, pc, outsideEngine>>

\* the caller's next request: a new invocation with arguments of its own
CallAgain(p) ==
    /\ frames[p].pc \in {"returned", "raised"}
    /\ \E in \in CallInputs : frames' = [frames EXCEPT ![p] = NewFrame(InputCandidate(in), InputJob(in))]
    /\ UNCHANGED <<lists, candidate, job, questions, result, pc, outsideEngine>>

NextCalls ==
    \E p \in Callers :
        \/ CallBegin(p)
        \/ CallExtendVerification(p)
        \/ CallExtendSkills(p)
        \/ CallExtendExperience(p)
        \/ CallExtendRoleFit(p)
        \/ CallExtendGap(p)
        \/ CallReturn(p)
        \/ CallAgain(p)

SpecCalls == InitCalls /\ [][NextCalls]_vars

----------------------------------------------------------------------------
(* The generate-questions endpoint answering a request, and a client       *)
(* reading the answer (candidates.py, response_model=List[ScreeningQuestion]).*)
(* A JSON object is the sequence of its members <<name, value>>; a value   *)
(* is a string or null.                                                    *)

\* most round trips a client makes with one list
MaxTrips == 2

json_string(s) == <<"string", s>>
json_null == <<"null">>

\* an Optional[str] field as a JSON value
json_optional(o) == IF IsNone(o) THEN json_null ELSE json_string(Value(o))

\* the source member left out of the record
question_dict_without_source(q) ==
    <<(<<"question", json_string(q.question)>>),
      (<<"category", json_string(q.category)>>)>>

\* ScreeningQuestion.dict(), encoded: one member per field, in field order
question_dict(q) ==
    <<(<<"question", json_string(q.question)>>),
      (<<"category", json_string(q.category)>>),
      (<<"source", json_optional(q.source)>>)>>

has_member(obj, name) == \E i \in 1..Len(obj) : obj[i][1] = name
member(obj, name) == obj[CHOOSE i \in 1..Len(obj) : obj[i][1] = name][2]

\* ScreeningQuestion(**obj): question and category are required, source
\* defaults to None
parse_question(obj) ==
    [question |-> member(obj, "question")[2],
     category |-> member(obj, "category")[2],
     source |-> IF has_member(obj, "source") /\ member(obj, "source") # json_null
                THEN Some(member(obj, "source")[2])
                ELSE None]

\* the body of the response: one record per question, in list order
to_transport(qs) == [i \in 1..Len(qs) |-> question_dict(qs[i])]

\* the list a client builds from the body
from_transport(body) == [i \in 1..Len(body) |-> parse_question(body[i])]

\* the arguments of the requests
TransportInputs == RefProfileInputs \X (AllSkillInputs \cup RefSkillInputs)

InitTransport ==
    /\ \E in \in TransportInputs : candidate = InputCandidate(in) /\ job = InputJob(in)
    /\ questions = <<>>
    /\ result = None
    /\ pc = "request"
    /\ frames = <<>>
    /\ lists = <<>>
    /\ wire = <<>>
    /\ received = <<>>
    /\ ParserUnused /\ ServiceUnused /\ PoolUnused

\* questions = await generate_screening_questions(candidate, job);
\* return questions
ServeQuestions ==
    /\ pc = "request"
    /\ questions' = generate_verification_questions(candidate, job)
                        \o generate_skill_questions(candidate, job)
                        \o generate_experience_questions(candidate, job)
                        \o generate_role_fit_questions(candidate, job)
                        \o generate_gap_questions(candidate, job)
    /\ result' = Some(questions')
    /\ wire' = to_transport(questions')
    /\ pc' = "responded"
    /\ UNCHANGED <<candidate, job, frames, lists, received, parserVars, serviceVars, poolVars>>

\* the client parses the body it was sent
ClientParse ==
    /\ pc = "responded"
    /\ received' = Append(received, from_transport(wire))
    /\ pc' = "parsed"
    /\ UNCHANGED <<engineVars, wire, parserVars, serviceVars, poolVars>>

\* the client sends the list it parsed on another round trip
ClientResend ==
    /\ pc = "parsed"
    /\ Len(received) < MaxTrips
    /\ wire' = to_transport(received[Len(received)])
    /\ pc' = "responded"
    /\ UNCHANGED <<engineVars, received, parserVars, serviceVars, poolVars>>

NextTransport ==
    \/ ServeQuestions
    \/ ClientParse
    \/ ClientResend

SpecTransport == InitTransport /\ [][NextTransport]_vars

----------------------------------------------------------------------------
(* resume_parser.py: extract_candidate_data, the statements that decide    *)
(* full_name (lines 70-81).  The statements after them (lines 83-126)      *)
(* assign email, phone, skills, years_of_experience and location only.     *)

\* longest resume text built from TextAlphabet
MaxText == 5

\* {3,50} of the name pattern
NameMinLen == 3
NameMaxLen == 50

Unknown == <<"U","n","k","n","o","w","n">>

UpperSet == {UpperCase[i] : i \in 1..26}
LowerSet == {LowerCase[i] : i \in 1..26}

\* the upper-case letter of each lower-case letter
UpperOf == [ch \in LowerSet |-> UpperCase[CHOOSE i \in 1..26 : LowerCase[i] = ch]]

UpperChar(ch) == IF ch \in LowerSet THEN UpperOf[ch] ELSE ch

\* text.split("\n"): the pieces between line feeds, empty ones included
RECURSIVE SplitLines(_, _, _)
SplitLines(s, i, piece) ==
    IF i > Len(s) THEN <<piece>>
    ELSE IF s[i] = "\n"
         THEN <<piece>> \o SplitLines(s, i + 1, <<>>)
         ELSE SplitLines(s, i + 1, Append(piece, s[i]))

str_split_lines(s) == SplitLines(s, 1, <<>>)

\* str.strip(): leading and trailing whitespace removed
str_strip(s) ==
    LET inked == {i \in 1..Len(s) : s[i] \notin Whitespace}
    IN  IF inked = {} THEN <<>>
        ELSE SubSeq(s, CHOOSE i \in inked : \A k \in inked : i <= k,
                       CHOOSE i \in inked : \A k \in inked : k <= i)

\* [line.strip() for line in lines if line.strip()]
strip_and_drop_blank(ls) ==
    LET stripped == [i \in 1..Len(ls) |-> str_strip(ls[i])]
    IN  SelectSeq(stripped, LAMBDA l : Len(l) > 0)

\* the pattern without its length bounds: ^[A-Za-z\s]*$
name_pattern_any_length(line) ==
    \A i \in 1..Len(line) : line[i] \in UpperSet \cup LowerSet \cup Whitespace

\* re.match(r"^[A-Za-z\s]{3,50}$", line), for a line without a line feed
name_pattern(line) ==
    /\ Len(line) >= NameMinLen
    /\ Len(line) <= NameMaxLen
    /\ \A i \in 1..Len(line) : line[i] \in UpperSet \cup LowerSet \cup Whitespace

\* str.title(): a letter that follows a letter is lower-cased, any other
\* letter upper-cased
str_title(s) ==
    [i \in 1..Len(s) |->
        IF i > 1 /\ s[i - 1] \in UpperSet \cup LowerSet
        THEN LowerChar(s[i])
        ELSE UpperChar(s[i])]

TextAlphabet == {"a", "B", " ", "\n", "7"}

\* n times the character ch
Repeated(ch, n) == [i \in 1..n |-> ch]

\* lines at the upper length bound of the pattern, and one past it
LongTexts ==
    {Repeated("a", NameMaxLen),
     Repeated("a", NameMaxLen + 1),
     <<"\n", " ">> \o Repeated("b", NameMaxLen - 2) \o <<" ", "C", "\t", "\n", "7">>,
     <<" ">> \o Repeated("b", NameMaxLen - 1) \o <<" ", "C", "\n">>}

Texts == SeqsUpTo(TextAlphabet, MaxText) \cup LongTexts

InitParser ==
    /\ resume_text \in Texts
    /\ lines = <<>>
    /\ parsed = None
    /\ pc = "construct"
    /\ EngineUnused /\ TransportUnused /\ ServiceUnused /\ PoolUnused

\* candidate = Candidate(full_name="Unknown")
ConstructCandidate ==
    /\ pc = "construct"
    /\ parsed' = Some(Candidate(Unknown, None, None, <<>>, <<>>, None))
    /\ pc' = "split"
    /\ UNCHANGED <<resume_text, lines, engineVars, transportVars, serviceVars, poolVars>>

\* lines = text.split("\n")
SplitText ==
    /\ pc = "split"
    /\ lines' = str_split_lines(resume_text)
    /\ pc' = "strip"
    /\ UNCHANGED <<resume_text, parsed, engineVars, transportVars, serviceVars, poolVars>>

\* lines = [line.strip() for line in lines if line.strip()]
StripLines ==
    /\ pc = "strip"
    /\ lines' = strip_and_drop_blank(lines)
    /\ pc' = "name"
    /\ UNCHANGED <<resume_text, parsed, engineVars, transportVars, serviceVars, poolVars>>

\* if lines: ... if re.match(...): candidate.full_name = first_meaningful_line.title()
ExtractName ==
    /\ pc = "name"
    /\ IF TruthyList(lines) /\ name_pattern(lines[1])
       THEN parsed' = Some([Value(parsed) EXCEPT !.full_name = str_title(lines[1])])
       ELSE UNCHANGED parsed
    /\ pc' = "fields"
    /\ UNCHANGED <<resume_text, lines, engineVars, transportVars, serviceVars, poolVars>>

\* the statements for the other fields, then return candidate
ReturnCandidate ==
    /\ pc = "fields"
    /\ pc' = "extracted"
    /\ UNCHANGED <<parserVars, engineVars, transportVars, serviceVars, poolVars>>

NextParser ==
    \/ ConstructCandidate
    \/ SplitText
    \/ StripLines
    \/ ExtractName
    \/ ReturnCandidate

SpecParser == InitParser /\ [][NextParser]_vars

----------------------------------------------------------------------------
(* The service around the engine: the candidates and jobs tables           *)
(* (database.py), the phone registry and the inbound webhook               *)
(* (webhooks.py), and the handlers of candidates.py.  A dict is a function *)
(* from its keys, the empty dict the empty function; a JSON column holds   *)
(* the encoded value.                                                      *)

\* dict.get(key, default)
dict_get(d, key, default) == IF key \in DOMAIN d THEN d[key] ELSE default

\* dict[key] = value
dict_put(d, key, value) == [k \in DOMAIN d \cup {key} |-> IF k = key THEN value ELSE d[k]]

\* dict.get(key) on a dict of dicts: None for a missing key
dict_lookup(d, key) == IF key \in DOMAIN d THEN Some(d[key]) ELSE None

\* bool(Optional[dict]): None and the empty dict are falsy
TruthyDict(o) == (~IsNone(o)) /\ DOMAIN Value(o) # {}

\* sep.join(parts)
RECURSIVE str_join(_, _)
str_join(sep, parts) ==
    IF Len(parts) = 0 THEN <<>>
    ELSE IF Len(parts) = 1 THEN parts[1]
    ELSE parts[1] \o sep \o str_join(sep, Tail(parts))

\* json.dumps of a list of str
json_dumps_strings(lst) == <<"array", [i \in 1..Len(lst) |-> json_string(lst[i])]>>

\* json.loads of such a text
json_loads_strings(encoded) == [i \in 1..Len(encoded[2]) |-> encoded[2][i][2]]

\* a WorkExperience as a JSON object
work_dict(e) ==
    <<(<<"job_title", json_string(e.job_title)>>),
      (<<"company", json_string(e.company)>>),
      (<<"start_date", json_optional(e.start_date)>>),
      (<<"end_date", json_optional(e.end_date)>>),
      (<<"description", json_optional(e.description)>>)>>

parse_optional(obj, name) ==
    IF has_member(obj, name) /\ member(obj, name) # json_null
    THEN Some(member(obj, name)[2])
    ELSE None

\* WorkExperience(**obj)
parse_work(obj) ==
    [job_title |-> member(obj, "job_title")[2],
     company |-> member(obj, "company")[2],
     start_date |-> parse_optional(obj, "start_date"),
     end_date |-> parse_optional(obj, "end_date"),
     description |-> parse_optional(obj, "description")]

json_dumps_work(lst) == <<"array", [i \in 1..Len(lst) |-> work_dict(lst[i])]>>
json_loads_work(encoded) == [i \in 1..Len(encoded[2]) |-> parse_work(encoded[2][i])]

\* the fields of the request and candidate schemas
CallRequestFields == {"candidate_id", "job_id", "agent_id", "agent_phone_number_id"}
CandidateFields == {"id", "full_name", "email", "phone", "current_job_title", "current_company", "location", "skills", "certifications", "work_experience", "education", "years_of_experience", "resume_text"}

\* the row upsert_candidate writes for a candidate dict
candidate_row(c) ==
    [id |-> c.id,
     full_name |-> c.full_name,
     phone |-> dict_get(c, "phone", None),
     current_job_title |-> dict_get(c, "current_job_title", None),
     location |-> dict_get(c, "location", None),
     years_experience |-> IF TruthyInt(dict_get(c, "years_of_experience", None))
                          THEN c.years_of_experience
                          ELSE dict_get(c, "years_experience", Some(0)),
     skills |-> Some(json_dumps_strings(dict_get(c, "skills", <<>>))),
     work_experience |-> Some(json_dumps_work(dict_get(c, "work_experience", <<>>)))]

\* the dict get_candidate_by_id builds from a row
candidate_row_dict(row) ==
    [id |-> row.id,
     full_name |-> row.full_name,
     phone |-> row.phone,
     current_job_title |-> row.current_job_title,
     location |-> row.location,
     years_of_experience |-> row.years_experience,
     skills |-> IF IsNone(row.skills) THEN <<>> ELSE json_loads_strings(Value(row.skills)),
     work_experience |-> IF IsNone(row.work_experience) THEN <<>> ELSE json_loads_work(Value(row.work_experience))]

get_candidate_by_id(candidate_id) ==
    IF candidate_id \in DOMAIN candidates_table
    THEN Some(candidate_row_dict(candidates_table[candidate_id]))
    ELSE None

\* Candidate(**candidate_data)
CandidateFrom(candidate_data) ==
    Candidate(candidate_data.full_name,
              dict_get(candidate_data, "current_job_title", None),
              dict_get(candidate_data, "location", None),
              dict_get(candidate_data, "skills", <<>>),
              dict_get(candidate_data, "work_experience", <<>>),
              dict_get(candidate_data, "years_of_experience", None))

\* the row upsert_job writes for a job dict
job_row(j) ==
    [id |-> j.id,
     title |-> j.title,
     company |-> dict_get(j, "company", None),
     description |-> dict_get(j, "description", None),
     requirements |-> Some(json_dumps_strings(dict_get(j, "requirements", <<>>))),
     preferred_skills |-> Some(json_dumps_strings(dict_get(j, "preferred_skills", <<>>)))]

\* the stored list returned under the key the schema reads
job_row_dict_required_skills(row) ==
    [id |-> row.id,
     title |-> row.title,
     company |-> row.company,
     description |-> row.description,
     required_skills |-> IF IsNone(row.requirements) THEN <<>> ELSE json_loads_strings(Value(row.requirements)),
     preferred_skills |-> IF IsNone(row.preferred_skills) THEN <<>> ELSE json_loads_strings(Value(row.preferred_skills))]

\* the dict get_job_by_id builds from a row
job_row_dict(row) ==
    [id |-> row.id,
     title |-> row.title,
     company |-> row.company,
     description |-> row.description,
     requirements |-> IF IsNone(row.requirements) THEN <<>> ELSE json_loads_strings(Value(row.requirements)),
     preferred_skills |-> IF IsNone(row.preferred_skills) THEN <<>> ELSE json_loads_strings(Value(row.preferred_skills))]

get_job_by_id(job_id) ==
    IF job_id \in DOMAIN jobs_table
    THEN Some(job_row_dict(jobs_table[job_id]))
    ELSE None

\* JobDescription(**job_data): a key that is no field is ignored, a field
\* without a key takes its default
JobDescriptionFrom(job_data) ==
    JobDescription(job_data.title,
                   dict_get(job_data, "company", None),
                   dict_get(job_data, "required_skills", <<>>),
                   dict_get(job_data, "preferred_skills", <<>>),
                   dict_get(job_data, "location", None))

\* generate_screening_questions as a whole
generate_screening_questions(c, j) ==
    generate_verification_questions(c, j) \o generate_skill_questions(c, j)
        \o generate_experience_questions(c, j) \o generate_role_fit_questions(c, j)
        \o generate_gap_questions(c, j)

HTTPException(status_code, detail) == [status |-> status_code, detail |-> detail]

\* an exception no handler catches: the framework answers 500
Unhandled(exception) == [status |-> 500, detail |-> exception]

\* digits only kept
normalize_phone_digits_only(phone) ==
    SelectSeq(phone, LAMBDA ch : ch \in {Digits[i] : i \in 1..10})

\* ''.join(c for c in phone if c.isdigit() or c == '+')
normalize_phone(phone) ==
    SelectSeq(phone, LAMBDA ch : ch \in {Digits[i] : i \in 1..10} \/ ch = "+")

\* a missing header let through
secret_rejected_when_given(expected_secret, x_webhook_secret) ==
    TruthyStr(expected_secret) /\ ~IsNone(x_webhook_secret) /\ x_webhook_secret # expected_secret

\* `if expected_secret and x_webhook_secret != expected_secret`
secret_rejected(expected_secret, x_webhook_secret) ==
    TruthyStr(expected_secret) /\ x_webhook_secret # expected_secret

\* the body the inbound webhook answers for the entry found for the caller
inbound_response(candidate_data) ==
    IF TruthyDict(candidate_data)
    THEN [type |-> "conversation_initiation_client_data",
          dynamic_variables |->
              [candidate_name |-> dict_get(Value(candidate_data), "full_name", Lit("there")),
               job_title |-> dict_get(Value(candidate_data), "job_title", Lit("the position")),
               candidate_skills |-> str_join(Lit(", "), list_prefix(dict_get(Value(candidate_data), "skills", <<>>), 3)),
               is_returning_call |-> "true"],
          first_message |->
              Lit("Hi ") \o dict_get(Value(candidate_data), "full_name", Lit("there"))
                  \o Lit("! Thanks for returning our call about the ")
                  \o dict_get(Value(candidate_data), "job_title", Lit("position"))
                  \o Lit(". I'm ready to continue with your screening whenever you are. Shall we begin?")]
    ELSE [type |-> "conversation_initiation_client_data",
          dynamic_variables |->
              [candidate_name |-> Lit("there"),
               is_returning_call |-> "false"],
          first_message |->
              Lit("Hello! Thank you for calling our recruitment line. Are you calling about a recent job application? Could I have your name please?")]

\* values the requests carry
PhoneFormatted == <<"+", "1", " ", "(", "5", ")">>
PhonePlain == <<"+", "1", "5">>
PhoneDigits == <<"1", "5">>
PhoneOther == <<"7", "-", "7">>
Secret == <<"s", "3">>
OtherSecret == <<"x">>
AgentId == <<"a", "1">>
PhoneNumberId == <<"n", "1">>
Description == <<"d">>

CandidateIds == {"c1", "c2"}
JobIds == {"j1", "j2"}

\* Candidate.dict() of an uploaded resume, its id assigned
CandidateDicts ==
    {[id |-> "c1", full_name |-> JaneDoe, phone |-> Some(PhoneFormatted),
      current_job_title |-> Some(DataAnalyst), location |-> Some(Austin),
      skills |-> <<SQL, Python>>, work_experience |-> <<InitechJob>>,
      years_of_experience |-> Some(3)],
     [id |-> "c2", full_name |-> Unknown, phone |-> None,
      current_job_title |-> None, location |-> None,
      skills |-> <<>>, work_experience |-> <<>>,
      years_of_experience |-> None]}

\* the job dicts upsert_job is given: JobDescription.dict() by create_job
\* and update_job, a dict with the key `requirements` by the ATS sync and
\* the scripts
JobDicts ==
    {[id |-> "j1", title |-> DataEngineer, company |-> Some(Acme), description |-> Some(Description),
      required_skills |-> <<Python, Spark, SQL>>, preferred_skills |-> <<SQL>>,
      education_requirements |-> None, experience_requirements |-> None, location |-> Some(Remote)],
     [id |-> "j1", title |-> SoftwareEngineer, company |-> None, description |-> Some(Description),
      required_skills |-> <<>>, preferred_skills |-> <<>>,
      education_requirements |-> None, experience_requirements |-> None, location |-> None],
     [id |-> "j1", title |-> SeniorSoftwareEngineer, company |-> Some(Initech), description |-> Some(Description),
      requirements |-> <<Python, SQL>>, preferred_skills |-> <<>>]}

\* the dicts registered for a phone: the one initiate_call builds
\* (candidates.py, lines 155-161), and one without the keys the webhook
\* reads
RegistrationData ==
    {[full_name |-> JaneDoe, job_title |-> DataEngineer, skills |-> <<SQL, Python>>, candidate_id |-> "c1", job_id |-> "j1"],
     [candidate_id |-> "c2", job_id |-> "j1"]}

RegisteredPhones == {PhoneFormatted, PhoneOther}
CallerIds == {PhoneFormatted, PhonePlain, PhoneDigits, PhoneOther, EmptyStr}

\* the bodies of the inbound requests: with a caller_id, and without
InboundBodies == {[caller_id |-> c, agent_id |-> AgentId] : c \in CallerIds} \cup {[agent_id |-> AgentId]}
SecretHeaders == {None, Some(Secret), Some(OtherSecret)}
ConfiguredSecrets == {None, Some(EmptyStr), Some(Secret)}

CallRequests ==
    {[candidate_id |-> c, job_id |-> j, agent_id |-> Some(AgentId), agent_phone_number_id |-> None] :
        c \in CandidateIds, j \in JobIds}

InitService ==
    /\ candidates_table = <<>>
    /\ jobs_table = <<>>
    /\ calls_table = <<>>
    /\ phone_to_candidate = <<>>
    /\ outbound = <<>>
    /\ \E secret \in ConfiguredSecrets :
           environ = [ELEVENLABS_WEBHOOK_SECRET |-> secret,
                      ELEVENLABS_AGENT_ID |-> Some(AgentId),
                      ELEVENLABS_PHONE_NUMBER_ID |-> Some(PhoneNumberId)]
    /\ request = <<>>
    /\ response = <<>>
    /\ pc = "serving"
    /\ EngineUnused /\ TransportUnused /\ ParserUnused /\ PoolUnused

\* upsert_candidate(candidate_dict), as upload_resume calls it
UpsertCandidate(c) ==
    /\ candidates_table' = dict_put(candidates_table, c.id, candidate_row(c))
    /\ request' = [op |-> "upsert_candidate", candidate |-> c]
    /\ response' = [status |-> 200]
    /\ UNCHANGED <<jobs_table, calls_table, phone_to_candidate, outbound, environ, pc, engineVars, transportVars, parserVars, poolVars>>

\* upsert_job(job_dict), as create_job, update_job and the sync call it
UpsertJob(j) ==
    /\ jobs_table' = dict_put(jobs_table, j.id, job_row(j))
    /\ request' = [op |-> "upsert_job", job |-> j]
    /\ response' = [status |-> 200]
    /\ UNCHANGED <<candidates_table, calls_table, phone_to_candidate, outbound, environ, pc, engineVars, transportVars, parserVars, poolVars>>

\* the numbers registered for the candidate dropped with the candidate
DeleteCandidate_unregistering(candidate_id) ==
    /\ request' = [op |-> "delete_candidate", candidate_id |-> candidate_id]
    /\ calls_table' = SelectSeq(calls_table, LAMBDA call : call.candidate_id # candidate_id)
    /\ candidates_table' = [k \in DOMAIN candidates_table \ {candidate_id} |-> candidates_table[k]]
    /\ phone_to_candidate' =
           [n \in {k \in DOMAIN phone_to_candidate : phone_to_candidate[k].candidate_id # candidate_id}
               |-> phone_to_candidate[n]]
    /\ response' = IF candidate_id \in DOMAIN candidates_table
                   THEN [status |-> 200]
                   ELSE HTTPException(404, "Candidate not found")
    /\ UNCHANGED <<jobs_table, outbound, environ, pc, engineVars, transportVars, parserVars, poolVars>>

\* DELETE /candidates/{candidate_id}
DeleteCandidate(candidate_id) ==
    /\ request' = [op |-> "delete_candidate", candidate_id |-> candidate_id]
    /\ calls_table' = SelectSeq(calls_table, LAMBDA call : call.candidate_id # candidate_id)
    /\ candidates_table' = [k \in DOMAIN candidates_table \ {candidate_id} |-> candidates_table[k]]
    /\ response' = IF candidate_id \in DOMAIN candidates_table
                   THEN [status |-> 200]
                   ELSE HTTPException(404, "Candidate not found")
    /\ UNCHANGED <<jobs_table, phone_to_candidate, outbound, environ, pc, engineVars, transportVars, parserVars, poolVars>>

\* POST /candidates/generate-questions
GenerateQuestions(candidate_id, job_id) ==
    LET candidate_data == get_candidate_by_id(candidate_id)
        job_data == get_job_by_id(job_id)
    IN  /\ request' = [op |-> "generate_questions", candidate_id |-> candidate_id, job_id |-> job_id]
        /\ response' =
               IF IsNone(candidate_data) THEN HTTPException(404, "Candidate not found")
               ELSE IF IsNone(job_data) THEN HTTPException(404, "Job not found")
               ELSE [status |-> 200,
                     body |-> to_transport(generate_screening_questions(
                                               CandidateFrom(Value(candidate_data)),
                                               JobDescriptionFrom(Value(job_data))))]
        /\ UNCHANGED <<candidates_table, jobs_table, calls_table, phone_to_candidate, outbound, environ, pc, engineVars, transportVars, parserVars, poolVars>>

\* register_candidate_phone(phone, candidate_data)
RegisterCandidatePhone(phone, candidate_data) ==
    /\ phone_to_candidate' = dict_put(phone_to_candidate, normalize_phone(phone), candidate_data)
    /\ request' = [op |-> "register_candidate_phone", phone |-> phone, candidate_data |-> candidate_data]
    /\ response' = [returned |-> None]
    /\ UNCHANGED <<candidates_table, jobs_table, calls_table, outbound, environ, pc, engineVars, transportVars, parserVars, poolVars>>

\* get_candidate_by_phone(phone)
GetCandidateByPhone(phone) ==
    /\ request' = [op |-> "get_candidate_by_phone", phone |-> phone]
    /\ response' = [returned |-> dict_lookup(phone_to_candidate, normalize_phone(phone))]
    /\ UNCHANGED <<candidates_table, jobs_table, calls_table, phone_to_candidate, outbound, environ, pc, engineVars, transportVars, parserVars, poolVars>>

\* POST /webhooks/elevenlabs/twilio-inbound
InboundWebhook(x_webhook_secret, body) ==
    /\ IF secret_rejected(environ.ELEVENLABS_WEBHOOK_SECRET, x_webhook_secret)
       THEN /\ request' = [op |-> "twilio_inbound", x_webhook_secret |-> x_webhook_secret,
                           body |-> body, body_read |-> FALSE]
            /\ response' = HTTPException(401, "Invalid webhook secret")
       ELSE /\ request' = [op |-> "twilio_inbound", x_webhook_secret |-> x_webhook_secret,
                           body |-> body, body_read |-> TRUE]
            /\ response' = [status |-> 200,
                            body |-> inbound_response(
                                         dict_lookup(phone_to_candidate,
                                                     normalize_phone(dict_get(body, "caller_id", EmptyStr))))]
    /\ UNCHANGED <<candidates_table, jobs_table, calls_table, phone_to_candidate, outbound, environ, pc, engineVars, transportVars, parserVars, poolVars>>

\* initiate_call from the point where the candidate and the job were
\* found (lines 139-204)
PlaceCall(req, candidate_data, job_data) ==
    IF "phone_override" \notin CallRequestFields
    THEN \* line 142: request.phone_override is no field of CallRequest
         /\ response' = Unhandled("AttributeError")
         /\ UNCHANGED <<phone_to_candidate, outbound, calls_table>>
    ELSE LET phone_to_call == IF TruthyStr(dict_get(req, "phone_override", None))
                              THEN req.phone_override ELSE candidate_data.phone
             agent_id == IF TruthyStr(req.agent_id) THEN req.agent_id ELSE environ.ELEVENLABS_AGENT_ID
             phone_number_id == IF TruthyStr(req.agent_phone_number_id)
                                THEN req.agent_phone_number_id ELSE environ.ELEVENLABS_PHONE_NUMBER_ID
         IN  IF ~TruthyStr(phone_to_call)
             THEN /\ response' = HTTPException(400, "No phone number available")
                  /\ UNCHANGED <<phone_to_candidate, outbound, calls_table>>
             ELSE IF ~TruthyStr(agent_id)
             THEN /\ response' = HTTPException(400, "agent_id required")
                  /\ UNCHANGED <<phone_to_candidate, outbound, calls_table>>
             ELSE IF ~TruthyStr(phone_number_id)
             THEN /\ response' = HTTPException(400, "agent_phone_number_id required")
                  /\ UNCHANGED <<phone_to_candidate, outbound, calls_table>>
             ELSE /\ phone_to_candidate' =
                         dict_put(phone_to_candidate, normalize_phone(Value(phone_to_call)),
                                  [full_name |-> candidate_data.full_name,
                                   job_title |-> job_data.title,
                                   skills |-> candidate_data.skills,
                                   candidate_id |-> req.candidate_id,
                                   job_id |-> req.job_id])
                  /\ IF "summary" \notin CandidateFields
                     THEN \* line 177: candidate.summary is no field of Candidate
                          /\ response' = Unhandled("AttributeError")
                          /\ UNCHANGED <<outbound, calls_table>>
                     ELSE \E success \in BOOLEAN :
                              /\ outbound' = Append(outbound, [to_number |-> Value(phone_to_call), agent_id |-> Value(agent_id)])
                              /\ calls_table' = Append(calls_table,
                                     [call_id |-> Len(calls_table) + 1,
                                      candidate_id |-> req.candidate_id,
                                      job_id |-> None,
                                      status |-> IF success THEN "initiated" ELSE "failed"])
                              /\ response' = IF success
                                             THEN [status |-> 200, body |-> [call_id |-> Len(calls_table) + 1, status |-> "initiated"]]
                                             ELSE HTTPException(500, "call failed")

\* the job looked up before the candidate
InitiateCall_job_first(req) ==
    LET candidate_data == get_candidate_by_id(req.candidate_id)
        job_data == get_job_by_id(req.job_id)
    IN  /\ request' = [op |-> "initiate_call", args |-> req]
        /\ IF IsNone(job_data)
           THEN /\ response' = HTTPException(404, "Job not found")
                /\ UNCHANGED <<phone_to_candidate, outbound, calls_table>>
           ELSE IF IsNone(candidate_data)
           THEN /\ response' = HTTPException(404, "Candidate not found")
                /\ UNCHANGED <<phone_to_candidate, outbound, calls_table>>
           ELSE PlaceCall(req, Value(candidate_data), Value(job_data))
        /\ UNCHANGED <<candidates_table, jobs_table, environ, pc, engineVars, transportVars, parserVars, poolVars>>

\* POST /candidates/initiate-call
InitiateCall(req) ==
    LET candidate_data == get_candidate_by_id(req.candidate_id)
        job_data == get_job_by_id(req.job_id)
    IN  /\ request' = [op |-> "initiate_call", args |-> req]
        /\ IF IsNone(candidate_data)
           THEN /\ response' = HTTPException(404, "Candidate not found")
                /\ UNCHANGED <<phone_to_candidate, outbound, calls_table>>
           ELSE IF IsNone(job_data)
           THEN /\ response' = HTTPException(404, "Job not found")
                /\ UNCHANGED <<phone_to_candidate, outbound, calls_table>>
           ELSE PlaceCall(req, Value(candidate_data), Value(job_data))
        /\ UNCHANGED <<candidates_table, jobs_table, environ, pc, engineVars, transportVars, parserVars, poolVars>>

NextService ==
    \/ \E c \in CandidateDicts : UpsertCandidate(c)
    \/ \E j \in JobDicts : UpsertJob(j)
    \/ \E candidate_id \in CandidateIds : DeleteCandidate(candidate_id)
    \/ \E candidate_id \in CandidateIds, job_id \in JobIds : GenerateQuestions(candidate_id, job_id)
    \/ \E req \in CallRequests : InitiateCall(req)
    \/ \E phone \in RegisteredPhones, candidate_data \in RegistrationData : RegisterCandidatePhone(phone, candidate_data)
    \/ \E phone \in CallerIds : GetCandidateByPhone(phone)
    \/ \E x_webhook_secret \in SecretHeaders, body \in InboundBodies : InboundWebhook(x_webhook_secret, body)

SpecService == InitService /\ [][NextService]_vars

----------------------------------------------------------------------------
(* The connection pool and the get_db context manager (db/database.py,     *)
(* lines 23-71).  The pool is psycopg2's ThreadedConnectionPool, modelled  *)
(* by what getconn and putconn do to its two collections: the connections  *)
(* checked out (_used) and the idle ones kept for reuse (_pool).  A        *)
(* connection is a number.  Threads run get_db statement by statement;     *)
(* each pool call is atomic (the pool locks), the statements between are   *)
(* not.                                                                    *)

NumThreads == 2

\* ThreadedConnectionPool(1, 20, DATABASE_URL)
minconn == 1
maxconn == 20

Threads == 1..NumThreads

\* connections checked out by threads of the server that stay inside
\* their contexts
HeldElsewhere == 1..(maxconn - 1)

\* the connections some thread or the pool still refers to
Referenced ==
    pool_used \cup {pool_idle[i] : i \in DOMAIN pool_idle}
        \cup UNION {{conns[t][i] : i \in DOMAIN conns[t]} : t \in Threads}

\* a connection object not referred to anywhere
FreshConn == CHOOSE c \in maxconn..(maxconn + NumThreads + 1) : c \notin Referenced

\* pool.getconn(): an idle connection when there is one, PoolError when
\* maxconn are checked out, else a new connection, which may fail to connect
getconn ==
    IF pool_idle # <<>>
    THEN {[raised |-> None, conn |-> Some(pool_idle[Len(pool_idle)]),
           used |-> pool_used \cup {pool_idle[Len(pool_idle)]},
           idle |-> SubSeq(pool_idle, 1, Len(pool_idle) - 1)]}
    ELSE IF Cardinality(pool_used) >= maxconn
    THEN {[raised |-> Some("PoolError"), conn |-> None, used |-> pool_used, idle |-> pool_idle]}
    ELSE {[raised |-> None, conn |-> Some(FreshConn), used |-> pool_used \cup {FreshConn}, idle |-> pool_idle],
          [raised |-> Some("OperationalError"), conn |-> None, used |-> pool_used, idle |-> pool_idle]}

\* pool.putconn(conn, close): PoolError for a connection that is not
\* checked out; else the connection leaves the checked-out ones, and is
\* kept idle when fewer than minconn are and it is not to be closed
putconn(conn, close) ==
    IF conn \notin pool_used
    THEN [raised |-> Some("PoolError"), used |-> pool_used, idle |-> pool_idle]
    ELSE [raised |-> None, used |-> pool_used \ {conn},
          idle |-> IF Len(pool_idle) < minconn /\ ~close THEN Append(pool_idle, conn) ELSE pool_idle]

\* the position of thread t in get_db
At(t, position) == ctx[t].pc = position

\* thread t moves to a position, with the exception in flight
Goto(t, position, raised) == ctx' = [ctx EXCEPT ![t] = [pc |-> position, raised |-> raised]]

NotPool == <<engineVars, pc, transportVars, parserVars, serviceVars>>

\* the pool as get_pool leaves it: minconn idle connections; the other
\* threads of the server hold none of the connections, or all but one.
\* conns[t] is the local conn of thread t's generator
InitPool ==
    /\ pool_used \in {{}, HeldElsewhere}
    /\ pool_idle = <<0>>
    /\ conns = [t \in Threads |-> None]
    /\ ctx = [t \in Threads |-> [pc |-> "outside", raised |-> None]]
    /\ pc = "pooled"
    /\ EngineUnused /\ TransportUnused /\ ParserUnused /\ ServiceUnused

\* with get_db() as conn: lines 43-44.  An exception of getconn leaves
\* the generator before its try statement
GetConn(t) ==
    /\ At(t, "outside") \/ At(t, "exited")
    /\ \E got \in getconn :
           /\ pool_used' = got.used
           /\ pool_idle' = got.idle
           /\ conns' = [conns EXCEPT ![t] = got.conn]
           /\ IF IsNone(got.raised) THEN Goto(t, "test", None) ELSE Goto(t, "exited", got.raised)
    /\ UNCHANGED NotPool

\* lines 47-50: SELECT 1 on the connection
TestConnection(t) ==
    /\ At(t, "test")
    /\ \/ Goto(t, "yield", None)
       \/ Goto(t, "stale", None)
       \/ Goto(t, "finally", Some("Exception"))
    /\ UNCHANGED <<pool_used, pool_idle, conns, NotPool>>

\* lines 52-56: the stale connection closed and put back to be discarded
DiscardStale(t) ==
    /\ At(t, "stale")
    /\ LET put == putconn(conns[t][1], TRUE)
       IN  /\ pool_used' = put.used
           /\ pool_idle' = put.idle
           /\ IF IsNone(put.raised) THEN Goto(t, "reconnect", None) ELSE Goto(t, "finally", put.raised)
    /\ UNCHANGED <<conns, NotPool>>

\* line 57: conn = pool.getconn().  When it raises, conn keeps the stale
\* connection; OperationalError is caught at line 59, PoolError is not
GetConnAgain(t) ==
    /\ At(t, "reconnect")
    /\ \E got \in getconn :
           /\ pool_used' = got.used
           /\ pool_idle' = got.idle
           /\ IF IsNone(got.raised)
              THEN /\ conns' = [conns EXCEPT ![t] = got.conn]
                   /\ Goto(t, "yield", None)
              ELSE /\ conns' = conns
                   /\ Goto(t, IF got.raised = Some("OperationalError") THEN "except" ELSE "finally", got.raised)
    /\ UNCHANGED NotPool

\* the exceptions the body of a with statement ends with
BodyOutcomes == {None, Some("OperationalError"), Some("InterfaceError"), Some("Exception")}

\* line 58: yield conn, and the body of the with statement
Body(t) ==
    /\ At(t, "yield")
    /\ \E raised \in BodyOutcomes :
           Goto(t, IF raised \in {Some("OperationalError"), Some("InterfaceError")} THEN "except" ELSE "finally", raised)
    /\ UNCHANGED <<pool_used, pool_idle, conns, NotPool>>

\* lines 59-66: the connection closed and put back to be discarded, the
\* exception raised again; an exception of putconn replaces it
HandleConnectionError(t) ==
    /\ At(t, "except")
    /\ LET put == putconn(conns[t][1], TRUE)
       IN  /\ pool_used' = put.used
           /\ pool_idle' = put.idle
           /\ Goto(t, "finally", IF IsNone(put.raised) THEN ctx[t].raised ELSE put.raised)
    /\ UNCHANGED <<conns, NotPool>>

\* finally without the putconn
Finally_keeping(t) ==
    /\ At(t, "finally")
    /\ Goto(t, "exited", ctx[t].raised)
    /\ conns' = [conns EXCEPT ![t] = None]
    /\ UNCHANGED <<pool_used, pool_idle, NotPool>>

\* lines 67-71: pool.putconn(conn), its exceptions swallowed; the
\* generator ends and its local conn with it
Finally(t) ==
    /\ At(t, "finally")
    /\ LET put == putconn(conns[t][1], FALSE)
       IN  /\ pool_used' = put.used
           /\ pool_idle' = put.idle
    /\ Goto(t, "exited", ctx[t].raised)
    /\ conns' = [conns EXCEPT ![t] = None]
    /\ UNCHANGED NotPool

NextPool ==
    \E t \in Threads :
        \/ GetConn(t)
        \/ TestConnection(t)
        \/ DiscardStale(t)
        \/ GetConnAgain(t)
        \/ Body(t)
        \/ HandleConnectionError(t)
        \/ Finally(t)

SpecPool == InitPool /\ [][NextPool]_vars

----------------------------------------------------------------------------
(* Vocabulary of the properties.                                           *)

Returned == pc = "returned"
Output == Value(result)

CategoryOrder == <<"verification", "skills", "experience", "motivation", "logistics">>

\* position of a category in CategoryOrder, 0 for any other category
Rank(category) ==
    IF \E k \in 1..Len(CategoryOrder) : CategoryOrder[k] = category
    THEN CHOOSE k \in 1..Len(CategoryOrder) : CategoryOrder[k] = category
    ELSE 0

OfCategory(qs, category) == SelectSeq(qs, LAMBDA q : q.category = category)

\* the literal text a question starts with identifies its template
Leading(q) == q.question[1]

HasLeading(qs, text) == \E i \in 1..Len(qs) : Leading(qs[i]) = text

CountLeading(qs, text) == Cardinality({i \in 1..Len(qs) : Leading(qs[i]) = text})

TitleLead == "Can you confirm your current role as "
YearsLead == "Your resume indicates about "
RelocationLead == "The role is based in "
SkillMatchLead == "I see you have experience with "
SkillMissLead == "This role requires "
CompanyLead == "Tell me about your role at "
GenericLead == "What experience do you have that's most relevant to the "
MotivationLead == "What attracted you to apply for the "
OutlookLead == "Where do you see yourself in 2-3 years, and how does this role fit into that?"
PivotLead == "Your background is in "
LogisticsLead == "What is your availability to start? Are you currently in a notice period?"

GenericQuestion(title) ==
    [question |-> <<GenericLead>> \o title \o <<" position?">>,
     category |-> "experience", source |-> <<"job_description">>]

MotivationQuestion(title, company) ==
    [question |-> <<MotivationLead>> \o title \o <<" role at ">> \o company \o <<"?">>,
     category |-> "motivation", source |-> <<"job_description">>]

OutlookQuestion ==
    [question |-> <<OutlookLead>>, category |-> "motivation", source |-> <<"general">>]

LogisticsQuestion ==
    [question |-> <<LogisticsLead>>, category |-> "logistics", source |-> <<"general">>]

----------------------------------------------------------------------------
\* C1: the list generate_screening_questions returns is exactly
\* verification ++ skills ++ experience ++ role-fit ++ gap, each the output
\* of its sub-generator on (candidate, job), nothing added, removed or
\* reordered.
C1_Concatenation ==
    Returned =>
        Output = generate_verification_questions(candidate, job)
                 \o generate_skill_questions(candidate, job)
                 \o generate_experience_questions(candidate, job)
                 \o generate_role_fit_questions(candidate, job)
                 \o generate_gap_questions(candidate, job)

\* a returned list to which the verification and skill sub-generators each
\* contributed several questions, and the experience one two
C1_Witness ==
    /\ Returned
    /\ Len(generate_verification_questions(candidate, job)) = 3
    /\ Len(generate_skill_questions(candidate, job)) = 3
    /\ Len(generate_experience_questions(candidate, job)) = 2
    /\ Len(generate_role_fit_questions(candidate, job)) = 3
    /\ Len(Output) = 12

\* C2: in every returned list the categories are ordered verification,
\* skills, experience, motivation, logistics: no question is followed by a
\* question of an earlier category.
C2_CategoryOrder ==
    Returned =>
        \A i \in 1..Len(Output) : \A k \in 1..Len(Output) :
            i < k => Rank(Output[i].category) <= Rank(Output[k].category)

\* a returned list in which all five categories occur
C2_Witness ==
    /\ Returned
    /\ \A k \in 1..Len(CategoryOrder) : Len(OfCategory(Output, CategoryOrder[k])) > 0

\* C3: every returned list has at least 4 questions and contains the generic
\* job-title experience question, the motivation question, the outlook
\* question and the availability question.
C3_MinimumOutput ==
    Returned =>
        /\ Len(Output) >= 4
        /\ \E i \in 1..Len(Output) : Output[i] = GenericQuestion(job.title)
        /\ \E i \in 1..Len(Output) :
               /\ Leading(Output[i]) = MotivationLead
               /\ Output[i].category = "motivation"
               /\ Output[i].source = <<"job_description">>
        /\ \E i \in 1..Len(Output) : Output[i] = OutlookQuestion
        /\ \E i \in 1..Len(Output) : Output[i] = LogisticsQuestion

\* a returned list of exactly the four unconditional questions
C3_Witness == Returned /\ Len(Output) = 4

YearsQuestion(years) ==
    [question |-> <<YearsLead>> \o int_str(years) \o <<" years of experience. Is that accurate?">>,
     category |-> "verification", source |-> <<"resume">>]

\* C4 as stated: a verification question stating years_of_experience is
\* emitted exactly once whenever the field is non-null, 0 included, and
\* never when it is null.
C4_YearsQuestionWhenSet ==
    Returned =>
        CountLeading(Output, YearsLead) = (IF IsNone(candidate.years_of_experience) THEN 0 ELSE 1)

\* C4 as amended: exactly one verification question stating the figure
\* (source resume) is emitted when years_of_experience is a non-null,
\* non-zero integer; none is emitted when the field is null or 0.
C4_YearsQuestionWhenNonZero ==
    Returned =>
        IF (~IsNone(candidate.years_of_experience)) /\ Value(candidate.years_of_experience) # 0
        THEN /\ CountLeading(Output, YearsLead) = 1
             /\ \E i \in 1..Len(Output) : Output[i] = YearsQuestion(Value(candidate.years_of_experience))
        ELSE CountLeading(Output, YearsLead) = 0

\* a candidate with 3 years of experience was asked to confirm the figure
C4_Witness ==
    /\ Returned
    /\ candidate.years_of_experience = Some(3)
    /\ \E i \in 1..Len(Output) : Output[i] = YearsQuestion(3)

\* C5: the number of skills questions is min(3, len(job.required_skills)).
C5_SkillCap ==
    Returned =>
        Len(OfCategory(Output, "skills")) =
            (IF Len(job.required_skills) < 3 THEN Len(job.required_skills) ELSE 3)

\* a job with more than three required skills got exactly three questions
C5_Witness ==
    /\ Returned
    /\ Len(job.required_skills) > 3
    /\ Len(OfCategory(Output, "skills")) = 3

\* some entry of candidate.skills equals the skill after lower-casing both
ClaimsSkill(c, skill) ==
    \E k \in 1..Len(c.skills) : str_lower(c.skills[k]) = str_lower(skill)

\* C6: the i-th skills question is about job.required_skills[i], and its
\* source is resume iff the candidate lists that skill up to letter case,
\* job_description otherwise.
C6_SkillOrderAndSource ==
    Returned =>
        LET sq == OfCategory(Output, "skills")
        IN  \A i \in 1..Len(sq) :
                /\ i <= Len(job.required_skills)
                /\ Leading(sq[i]) \in {SkillMatchLead, SkillMissLead}
                /\ SubSeq(sq[i].question, 2, Len(sq[i].question) - 1) = job.required_skills[i]
                /\ sq[i].source = (IF ClaimsSkill(candidate, job.required_skills[i])
                                   THEN <<"resume">> ELSE <<"job_description">>)

\* the candidate lists a skill in another letter case and in another
\* position than the job does; one question is sourced from the resume and
\* one from the job description
C6_Witness ==
    /\ Returned
    /\ Len(candidate.skills) > 0 /\ candidate.skills[1] = python
    /\ Len(job.required_skills) > 1
    /\ job.required_skills[1] = Spark /\ job.required_skills[2] = Python
    /\ OfCategory(Output, "skills")[1].source = <<"job_description">>
    /\ OfCategory(Output, "skills")[2].source = <<"resume">>

PivotEmitted == HasLeading(Output, PivotLead)

\* some whitespace-separated token of the lower-cased candidate title is a
\* substring of the lower-cased job title
TitlesOverlap(candidate_title, job_title) ==
    LET tokens == str_split(str_lower(candidate_title))
    IN  \E k \in 1..Len(tokens) : str_contains(str_lower(job_title), tokens[k])

\* C7: the career-transition question is emitted iff both titles are
\* non-empty and no token of the candidate title occurs in the job title;
\* 'Senior Software Engineer' against 'Software Engineer' emits none,
\* 'Marketing Manager' against 'Software Engineer' emits one.
C7_PivotHeuristic ==
    Returned =>
        /\ PivotEmitted <=>
               /\ ~IsNone(candidate.current_job_title)
               /\ Value(candidate.current_job_title) # EmptyStr
               /\ job.title # EmptyStr
               /\ ~TitlesOverlap(Value(candidate.current_job_title), job.title)
        /\ (candidate.current_job_title = Some(SeniorSoftwareEngineer) /\ job.title = SoftwareEngineer)
               => ~PivotEmitted
        /\ (candidate.current_job_title = Some(MarketingManager) /\ job.title = SoftwareEngineer)
               => PivotEmitted

\* the Marketing Manager applying for Software Engineer was asked about
\* the transition
C7_Witness ==
    /\ Returned
    /\ candidate.current_job_title = Some(MarketingManager)
    /\ job.title = SoftwareEngineer
    /\ PivotEmitted

OptionalFields == {"current_job_title", "years_of_experience", "location", "skills", "work_experience", "company", "job_location", "required_skills", "preferred_skills"}

\* the candidate with one optional field made absent
CandidateWithout(c, field) ==
    CASE field = "current_job_title" -> [c EXCEPT !.current_job_title = None]
      [] field = "years_of_experience" -> [c EXCEPT !.years_of_experience = None]
      [] field = "location" -> [c EXCEPT !.location = None]
      [] field = "skills" -> [c EXCEPT !.skills = <<>>]
      [] field = "work_experience" -> [c EXCEPT !.work_experience = <<>>]
      [] OTHER -> c

\* the job with one optional field made absent
JobWithout(j, field) ==
    CASE field = "company" -> [j EXCEPT !.company = None]
      [] field = "job_location" -> [j EXCEPT !.location = None]
      [] field = "required_skills" -> [j EXCEPT !.required_skills = <<>>]
      [] field = "preferred_skills" -> [j EXCEPT !.preferred_skills = <<>>]
      [] OTHER -> j

\* the optional fields a question is derived from, by its template
DependsOn(q) ==
    CASE Leading(q) = TitleLead -> {"current_job_title"}
      [] Leading(q) = YearsLead -> {"years_of_experience"}
      [] Leading(q) = RelocationLead -> {"location", "job_location"}
      [] Leading(q) = SkillMatchLead -> {"skills", "required_skills"}
      [] Leading(q) = SkillMissLead -> {"skills", "required_skills"}
      [] Leading(q) = CompanyLead -> {"work_experience"}
      [] Leading(q) = MotivationLead -> {"company"}
      [] Leading(q) = PivotLead -> {"current_job_title"}
      [] OTHER -> {}

IndependentOf(qs, field) == SelectSeq(qs, LAMBDA q : field \notin DependsOn(q))

\* the call on (c, j) fails with an exception
CallRaises(c, j) == experience_raises(c, j) \/ role_fit_raises(c, j)

\* the list the five sub-generators build for (c, j)
QuestionsFor(c, j) ==
    generate_verification_questions(c, j) \o generate_skill_questions(c, j)
        \o generate_experience_questions(c, j) \o generate_role_fit_questions(c, j)
        \o generate_gap_questions(c, j)

\* C8: no call raises, whatever optional fields are absent; making one
\* optional field absent removes no question other than those derived from
\* that field, and leaves the others unchanged and in the same order.
C8_AbsentFieldsTolerated ==
    /\ pc # "raised"
    /\ Returned =>
           \A field \in OptionalFields :
               LET c2 == CandidateWithout(candidate, field)
                   j2 == JobWithout(job, field)
                   out2 == QuestionsFor(c2, j2)
               IN  /\ ~CallRaises(c2, j2)
                   /\ IndependentOf(out2, field) = IndependentOf(Output, field)
                   /\ Len(out2) <= Len(Output)

\* a call that returned although the title, the years and the company are
\* absent while the other fields are present
C8_Witness ==
    /\ Returned
    /\ IsNone(candidate.current_job_title)
    /\ IsNone(candidate.years_of_experience)
    /\ IsNone(job.company)
    /\ TruthyStr(candidate.location) /\ TruthyStr(job.location)
    /\ Len(candidate.work_experience) > 0
    /\ Len(job.required_skills) > 0

\* every optional field of the candidate and of the job is absent
OnlyRequiredFields(c, j) ==
    /\ IsNone(c.current_job_title) /\ IsNone(c.years_of_experience) /\ IsNone(c.location)
    /\ c.skills = <<>> /\ c.work_experience = <<>>
    /\ IsNone(j.company) /\ IsNone(j.location)
    /\ j.required_skills = <<>> /\ j.preferred_skills = <<>>

\* C9: with only full_name, job.title and job.description set the output is
\* exactly generic experience, motivation, outlook, logistics.
C9_ScenarioB ==
    (Returned /\ OnlyRequiredFields(candidate, job)) =>
        Output = <<GenericQuestion(job.title),
                   MotivationQuestion(job.title, <<"our company">>),
                   OutlookQuestion,
                   LogisticsQuestion>>

C9_Witness ==
    /\ Returned
    /\ OnlyRequiredFields(candidate, job)
    /\ job.title = DataEngineer
    /\ Len(Output) = 4

ScenarioA(c, j) ==
    /\ c.current_job_title = Some(DataAnalyst)
    /\ c.years_of_experience = Some(3)
    /\ c.skills = <<SQL, Python>>
    /\ c.work_experience = <<>>
    /\ IsNone(c.location)
    /\ j.title = DataEngineer
    /\ j.required_skills = <<Python, Spark, SQL>>

Categories(qs) == [i \in 1..Len(qs) |-> qs[i].category]
Sources(qs) == [i \in 1..Len(qs) |-> qs[i].source[1]]
Leads(qs) == [i \in 1..Len(qs) |-> Leading(qs[i])]

\* C10: scenario A yields 9 questions: title and years verification, three
\* skills questions sourced resume, job_description, resume, the generic
\* experience question, two motivation questions without a pivot, and the
\* logistics question.
C10_ScenarioA ==
    (Returned /\ ScenarioA(candidate, job)) =>
        /\ Len(Output) = 9
        /\ Leads(Output) = <<TitleLead, YearsLead, SkillMatchLead, SkillMissLead, SkillMatchLead, GenericLead, MotivationLead, OutlookLead, LogisticsLead>>
        /\ Categories(Output) = <<"verification", "verification", "skills", "skills", "skills", "experience", "motivation", "motivation", "logistics">>
        /\ Sources(SubSeq(Output, 3, 5)) = <<"resume", "job_description", "resume">>
        /\ Output[2].question = <<YearsLead, "3", " years of experience. Is that accurate?">>
        /\ SubSeq(Output[3].question, 2, 7) = Python
        /\ SubSeq(Output[4].question, 2, 6) = Spark
        /\ SubSeq(Output[5].question, 2, 4) = SQL

C10_Witness == Returned /\ ScenarioA(candidate, job) /\ Len(Output) = 9

\* C12 as stated: every returned list has between 6 and 12 questions.
C12_Range6To12 == Returned => (Len(Output) >= 6 /\ Len(Output) <= 12)

\* C12 as amended: every returned list has between 4 and 12 questions.
C12_Range4To12 == Returned => (Len(Output) >= 4 /\ Len(Output) <= 12)

\* a returned list of the maximal length: 3 verification, 3 skills, 2
\* experience, 3 motivation and 1 logistics question
C12_Witness ==
    /\ Returned
    /\ Len(Output) = 12
    /\ Len(job.required_skills) > 3
    /\ Len(OfCategory(Output, "verification")) = 3
    /\ Len(OfCategory(Output, "motivation")) = 3

\* a string field is set when it holds a non-empty string
IsSet(o) == (~IsNone(o)) /\ Value(o) # EmptyStr

TitleQuestion(title) ==
    [question |-> <<TitleLead>> \o title \o <<"?">>,
     category |-> "verification", source |-> <<"resume">>]

RelocationQuestion(job_location, candidate_location) ==
    [question |-> <<RelocationLead>> \o job_location \o <<". You're currently in ">> \o candidate_location
                      \o <<". Would you be open to relocating or is remote work preferred?">>,
     category |-> "verification", source |-> <<"job_description">>]

\* C13: the verification questions are at most 3, in the order title,
\* years, relocation; the title question (source resume) is present iff
\* current_job_title is set; the relocation question (source
\* job_description, naming both locations) is present iff both locations
\* are set.
C13_VerificationQuestions ==
    Returned =>
        LET vq == OfCategory(Output, "verification")
        IN  /\ Len(vq) <= 3
            /\ \A i \in 1..Len(vq) : \A k \in 1..Len(vq) :
                   /\ (Leading(vq[i]) = TitleLead /\ i # k) => i < k
                   /\ (Leading(vq[i]) = RelocationLead /\ i # k) => k < i
            /\ \A i \in 1..Len(vq) : Leading(vq[i]) \in {TitleLead, YearsLead, RelocationLead}
            /\ IF IsSet(candidate.current_job_title)
               THEN vq[1] = TitleQuestion(Value(candidate.current_job_title))
               ELSE ~HasLeading(vq, TitleLead)
            /\ IF IsSet(candidate.location) /\ IsSet(job.location)
               THEN vq[Len(vq)] = RelocationQuestion(Value(job.location), Value(candidate.location))
               ELSE ~HasLeading(vq, RelocationLead)

\* all three verification questions were asked
C13_Witness ==
    /\ Returned
    /\ Leads(OfCategory(Output, "verification")) = <<TitleLead, YearsLead, RelocationLead>>

CompanyQuestion(company) ==
    [question |-> <<CompanyLead>> \o company \o <<". What were your main responsibilities?">>,
     category |-> "experience", source |-> <<"resume">>]

\* C14: the experience questions are the question about the company of
\* work_experience[0], present iff the list is non-empty, followed by the
\* generic question naming job.title; entries after the first, and the
\* dates of all entries, play no part.
C14_ExperienceQuestions ==
    Returned =>
        OfCategory(Output, "experience") =
            (IF Len(candidate.work_experience) > 0
             THEN <<CompanyQuestion(candidate.work_experience[1].company)>>
             ELSE <<>>)
            \o <<GenericQuestion(job.title)>>

\* the first entry is the older position and the second the current one;
\* the question names the first
C14_Witness ==
    /\ Returned
    /\ candidate.work_experience = <<AcmeJob, InitechJob>>
    /\ OfCategory(Output, "experience")[1] = CompanyQuestion(Acme)
    /\ Len(OfCategory(Output, "experience")) = 2

PivotQuestion(candidate_title, job_title) ==
    [question |-> <<PivotLead>> \o candidate_title \o <<", but you're applying for ">> \o job_title
                      \o <<". What's driving this career transition?">>,
     category |-> "motivation", source |-> <<"resume">>]

\* C15: the motivation questions are 2 or 3: first the question naming
\* job.title and job.company ('our company' when the company is absent),
\* second the outlook question, third the pivot question when it is
\* emitted; no other question has category motivation.
C15_RoleFitQuestions ==
    Returned =>
        LET mq == OfCategory(Output, "motivation")
        IN  /\ Len(mq) \in {2, 3}
            /\ mq[1] = MotivationQuestion(job.title,
                           IF IsSet(job.company) THEN Value(job.company) ELSE <<"our company">>)
            /\ mq[2] = OutlookQuestion
            /\ Len(mq) = 3 => mq[3] = PivotQuestion(Value(candidate.current_job_title), job.title)
            /\ \A i \in 1..Len(Output) :
                   Leading(Output[i]) \in {MotivationLead, OutlookLead, PivotLead}
                       => Output[i].category = "motivation"

\* three motivation questions, the first with the fallback phrase
C15_Witness ==
    /\ Returned
    /\ ~IsSet(job.company)
    /\ Len(OfCategory(Output, "motivation")) = 3
    /\ OfCategory(Output, "motivation")[1] = MotivationQuestion(job.title, <<"our company">>)

\* C16: whatever the input, the gap sub-generator contributes exactly the
\* availability question (category logistics, source general), the only
\* logistics question and the last of the list.
C16_GapQuestion ==
    Returned =>
        /\ OfCategory(Output, "logistics") = <<LogisticsQuestion>>
        /\ Output[Len(Output)] = LogisticsQuestion
        /\ CountLeading(Output, LogisticsLead) = 1

\* a work history with three years missing between its two entries
C16_Witness ==
    /\ Returned
    /\ candidate.work_experience = <<InitechJob, AcmeJob>>
    /\ OfCategory(Output, "logistics") = <<LogisticsQuestion>>

PreferredChoices == {<<>>, <<Spark>>, <<Python, SQL>>}

\* C19: replacing job.preferred_skills by any other list gives the same
\* question list.
C19_PreferredSkillsUnused ==
    Returned =>
        \A preferred \in PreferredChoices :
            QuestionsFor(candidate, [job EXCEPT !.preferred_skills = preferred]) = Output

\* a job with fewer than three required skills and a preferred skill: the
\* preferred skill was not asked about
C19_Witness ==
    /\ Returned
    /\ job.required_skills = <<Spark, Python>>
    /\ job.preferred_skills = <<SQL>>
    /\ Len(OfCategory(Output, "skills")) = 2
    /\ \A i \in 1..Len(Output) : ~str_contains(Output[i].question, SQL)

\* a list without the later occurrences of its repeated elements
RECURSIVE Deduplicated(_)
Deduplicated(lst) ==
    IF Len(lst) = 0 THEN <<>>
    ELSE LET front == Deduplicated(SubSeq(lst, 1, Len(lst) - 1))
         IN  IF list_contains(front, lst[Len(lst)]) THEN front ELSE Append(front, lst[Len(lst)])

\* C20: a skill repeated among the first three required skills gets one
\* question per occurrence, and repeated entries of candidate.skills do
\* not change the output.
C20_NoDeduplication ==
    Returned =>
        LET sq == OfCategory(Output, "skills")
            top == list_prefix(job.required_skills, 3)
        IN  /\ Len(sq) = Len(top)
            /\ \A i \in 1..Len(top) : \A k \in 1..Len(top) : top[i] = top[k] => sq[i] = sq[k]
            /\ QuestionsFor([candidate EXCEPT !.skills = Deduplicated(candidate.skills)], job) = Output

\* a skill required twice was asked about twice, of a candidate who lists
\* it twice
C20_Witness ==
    /\ Returned
    /\ Len(job.required_skills) > 1
    /\ job.required_skills[1] = job.required_skills[2]
    /\ Len(candidate.skills) = 2 /\ candidate.skills[1] = candidate.skills[2]
    /\ Len(OfCategory(Output, "skills")) > 1
    /\ OfCategory(Output, "skills")[1] = OfCategory(Output, "skills")[2]
    /\ OfCategory(Output, "skills")[1].source = <<"resume">>

CallReturned(p) == frames[p].pc = "returned"

\* C11: two invocations that were given equal arguments return equal
\* lists, whenever each of them ran and whatever ran before or between.
C11_Deterministic ==
    \A p \in Callers : \A q \in Callers :
        (/\ CallReturned(p) /\ CallReturned(q)
         /\ frames[p].candidate = frames[q].candidate
         /\ frames[p].job = frames[q].job)
            => frames[p].result = frames[q].result

\* two callers hold the results of invocations with equal arguments
C11_Witness ==
    /\ CallReturned(1) /\ CallReturned(2)
    /\ frames[1].candidate = frames[2].candidate
    /\ frames[1].job = frames[2].job
    /\ Len(Value(frames[1].result)) = 12
    /\ Value(frames[2].result)[12] = LogisticsQuestion

\* C17: no step of an invocation changes the Candidate or the Job it was
\* given, nor any state outside the invocation.
C17_ArgumentsUnchanged ==
    [][candidate' = candidate /\ job' = job /\ frames' = frames /\ lists' = lists]_vars

\* an invocation has returned and the lists of its arguments are as given
C17_Witness ==
    /\ Returned
    /\ Len(job.required_skills) > 3
    /\ Len(candidate.skills) > 1
    /\ Len(candidate.work_experience) > 0
    /\ Len(OfCategory(Output, "skills")) = 3

\* C18: under every interleaving each invocation returns the list it would
\* return if run alone.
C18_Isolated ==
    \A p \in Callers :
        /\ frames[p].pc # "raised"
        /\ CallReturned(p) => frames[p].result = Some(QuestionsFor(frames[p].candidate, frames[p].job))

\* caller 1 has returned while caller 2, given other arguments, is in the
\* middle of its invocation
C18_Witness ==
    /\ CallReturned(1)
    /\ frames[2].pc = "role_fit"
    /\ frames[1].job # frames[2].job
    /\ Len(lists[local_list(2)]) > 0
    /\ Len(Value(frames[1].result)) = 12

QuestionCategories == {"verification", "skills", "experience", "motivation", "logistics"}
QuestionSources == {"resume", "job_description", "general"}

\* C22: every question of every returned list has its category among
\* verification, skills, experience, motivation, logistics and a source,
\* never null, among resume, job_description, general.
C22_CategoryAndSource ==
    Returned =>
        \A i \in 1..Len(Output) :
            /\ Output[i].category \in QuestionCategories
            /\ ~IsNone(Output[i].source)
            /\ Value(Output[i].source) \in QuestionSources

\* a returned list in which every category and every source occurs
C22_Witness ==
    /\ Returned
    /\ {Output[i].category : i \in 1..Len(Output)} = QuestionCategories
    /\ {Output[i].source : i \in 1..Len(Output)} = {Some(s) : s \in QuestionSources}

\* an optional string holding the empty string, made null
NullIfEmpty(o) == IF o = Some(EmptyStr) THEN None ELSE o

\* C24: an empty string counts as absent: an empty current_job_title
\* suppresses the title and the pivot question, an empty location on
\* either side the relocation question, an empty job.title the pivot
\* question, an empty job.company is replaced by 'our company'; the list is
\* the one returned when the empty optional fields are null.
C24_EmptyStringIsAbsent ==
    Returned =>
        /\ candidate.current_job_title = Some(EmptyStr)
               => (~HasLeading(Output, TitleLead) /\ ~PivotEmitted)
        /\ (candidate.location = Some(EmptyStr) \/ job.location = Some(EmptyStr))
               => ~HasLeading(Output, RelocationLead)
        /\ job.title = EmptyStr => ~PivotEmitted
        /\ job.company = Some(EmptyStr)
               => OfCategory(Output, "motivation")[1] = MotivationQuestion(job.title, <<"our company">>)
        /\ Output = QuestionsFor(
                        [candidate EXCEPT !.current_job_title = NullIfEmpty(@), !.location = NullIfEmpty(@)],
                        [job EXCEPT !.company = NullIfEmpty(@), !.location = NullIfEmpty(@)])

\* the title, the candidate's location and the company are empty strings
\* and the job has a location: none of the questions about them was asked
C24_Witness ==
    /\ Returned
    /\ candidate.current_job_title = Some(EmptyStr)
    /\ candidate.location = Some(EmptyStr)
    /\ job.location = Some(Remote)
    /\ job.company = Some(EmptyStr)
    /\ job.title = SoftwareEngineer
    /\ candidate.years_of_experience = Some(3)
    /\ Leads(OfCategory(Output, "verification")) = <<YearsLead>>
    /\ Len(OfCategory(Output, "motivation")) = 2

\* C21: the list parsed back from the transport form of a returned list
\* has the same length and, position by position, the same question text,
\* category and source; a second round trip gives what the first gave.
C21_RoundTrip ==
    \A k \in 1..Len(received) :
        /\ Len(received[k]) = Len(Output)
        /\ \A i \in 1..Len(Output) :
               /\ received[k][i].question = Output[i].question
               /\ received[k][i].category = Output[i].category
               /\ received[k][i].source = Output[i].source
        /\ received[k] = received[1]

\* a list of twelve questions, with all three sources, came back from its
\* second round trip
C21_Witness ==
    /\ pc = "parsed"
    /\ Len(received) = 2
    /\ Len(Output) = 12
    /\ {received[2][i].source : i \in 1..12} = {Some(s) : s \in QuestionSources}

Letters == UpperSet \cup LowerSet

\* the positions of the text's first line that is not blank: none when
\* every line is blank
FirstInkedLine(s) ==
    LET inked == {i \in 1..Len(s) : s[i] \notin Whitespace}
    IN  IF inked = {} THEN {}
        ELSE LET first == CHOOSE i \in inked : \A k \in inked : i <= k
                 fence == {k \in first..Len(s) : s[k] = "\n"}
                 stop == IF fence = {} THEN Len(s) + 1 ELSE CHOOSE k \in fence : \A m \in fence : k <= m
                 last == CHOOSE i \in inked : i < stop /\ \A k \in inked : k < stop => k <= i
             IN  first..last

\* s is n title-cased: each letter at the start of a run of letters in
\* upper case, each other letter in lower case, everything else as in n
IsTitleCaseOf(s, n) ==
    /\ Len(s) = Len(n)
    /\ \A i \in 1..Len(n) :
           IF n[i] \in Letters
           THEN IF i = 1 \/ n[i - 1] \notin Letters
                THEN s[i] \in UpperSet /\ LowerChar(s[i]) = LowerChar(n[i])
                ELSE s[i] \in LowerSet /\ LowerChar(n[i]) = s[i]
           ELSE s[i] = n[i]

Handled(op) == DOMAIN request # {} /\ request.op = op

\* the response passed the check of the webhook secret
Accepted == response.status = 200

\* the categories of the questions in a response body
BodyCategories(body) == {member(body[i], "category")[2] : i \in 1..Len(body)}

\* C25: the required skills of a job do not survive upsert_job and
\* get_job_by_id: the JobDescription the generate-questions endpoint
\* rebuilds for any stored job has an empty required_skills list, and no
\* answer of the endpoint holds a question of category skills, whatever
\* required skills the job was stored with.
C25_RequiredSkillsLost ==
    /\ \A job_id \in DOMAIN jobs_table :
           /\ "required_skills" \notin DOMAIN Value(get_job_by_id(job_id))
           /\ "requirements" \in DOMAIN Value(get_job_by_id(job_id))
           /\ JobDescriptionFrom(Value(get_job_by_id(job_id))).required_skills = <<>>
    /\ (Handled("generate_questions") /\ response.status = 200)
           => "skills" \notin BodyCategories(response.body)

\* the endpoint answered for the candidate who lists SQL and Python and
\* the job created with the required skills Python, Spark, SQL: seven
\* questions, none about a skill
C25_Witness ==
    /\ Handled("generate_questions")
    /\ response.status = 200
    /\ request.candidate_id = "c1"
    /\ "j1" \in DOMAIN jobs_table
    /\ jobs_table["j1"].title = DataEngineer
    /\ Len(response.body) = 7
    /\ "verification" \in BodyCategories(response.body)

PhoneCharacters == {"0", "1", "2", "3", "4", "5", "6", "7", "8", "9", "+"}

\* a number reduced to its digits and plus signs
DigitsAndPlus(phone) == SelectSeq(phone, LAMBDA ch : ch \in PhoneCharacters)

\* the caller id of an inbound request: empty when the body has none
CallerOf(req) == IF "caller_id" \in DOMAIN req.body THEN req.body.caller_id ELSE <<>>

\* the answer carries the personalization of the registered dict d
Personalized(answer, d) ==
    /\ answer.dynamic_variables.is_returning_call = "true"
    /\ answer.dynamic_variables.candidate_name = (IF "full_name" \in DOMAIN d THEN d.full_name ELSE <<"there">>)
    /\ answer.dynamic_variables.job_title = (IF "job_title" \in DOMAIN d THEN d.job_title ELSE <<"the position">>)

\* the answer is the generic one
Generic(answer) ==
    /\ answer.dynamic_variables.is_returning_call = "false"
    /\ answer.dynamic_variables.candidate_name = <<"there">>
    /\ "job_title" \notin DOMAIN answer.dynamic_variables

\* C26: a registration stores d under the digits and plus signs of its
\* number, replacing what was stored there and nothing else, and only a
\* registration changes the registry; an accepted inbound request, and
\* get_candidate_by_phone, answer from the entry stored under the digits
\* and plus signs of the caller id: d's personalization with
\* is_returning_call 'true' when there is a non-empty one, the generic
\* answer with 'false' when there is none.
C26_LastRegistrationWins ==
    [][/\ DOMAIN request' # {}
       /\ IF request'.op = "register_candidate_phone"
          THEN LET n == DigitsAndPlus(request'.phone)
               IN  /\ DOMAIN phone_to_candidate' = DOMAIN phone_to_candidate \cup {n}
                   /\ phone_to_candidate'[n] = request'.candidate_data
                   /\ \A k \in DOMAIN phone_to_candidate \ {n} : phone_to_candidate'[k] = phone_to_candidate[k]
          ELSE phone_to_candidate' = phone_to_candidate
       /\ (request'.op = "twilio_inbound" /\ response'.status = 200) =>
              LET n == DigitsAndPlus(CallerOf(request'))
              IN  IF n \notin DOMAIN phone_to_candidate
                  THEN Generic(response'.body)
                  ELSE DOMAIN phone_to_candidate[n] # {} => Personalized(response'.body, phone_to_candidate[n])
       /\ request'.op = "get_candidate_by_phone" =>
              LET n == DigitsAndPlus(request'.phone)
              IN  response'.returned = (IF n \in DOMAIN phone_to_candidate THEN <<phone_to_candidate[n]>> ELSE <<>>)
      ]_vars

\* a caller whose id is written otherwise than the number registered got
\* the personalization registered for that number
C26_Witness ==
    /\ Handled("twilio_inbound")
    /\ response.status = 200
    /\ CallerOf(request) = PhonePlain
    /\ PhonePlain \in DOMAIN phone_to_candidate
    /\ PhonePlain \notin RegisteredPhones
    /\ response.body.dynamic_variables.is_returning_call = "true"
    /\ response.body.dynamic_variables.candidate_name = JaneDoe
    /\ response.body.dynamic_variables.candidate_skills = SQL \o <<", ">> \o Python

\* C27: no operation takes an entry out of the phone registry, the
\* deletion of a candidate included, and an accepted inbound call from a
\* number that has an entry is answered as a returning call whether or
\* not the candidate it was registered for still exists.
C27_RegistryKeepsEntries ==
    [][/\ DOMAIN phone_to_candidate \subseteq DOMAIN phone_to_candidate'
       /\ (/\ DOMAIN request' # {}
           /\ request'.op = "twilio_inbound"
           /\ response'.status = 200
           /\ DigitsAndPlus(CallerOf(request')) \in DOMAIN phone_to_candidate)
              => response'.body.dynamic_variables.is_returning_call = "true"
      ]_vars

\* candidate c1 was deleted and the number registered for c1 is still in
\* the registry
C27_Witness ==
    /\ Handled("delete_candidate")
    /\ response.status = 200
    /\ request.candidate_id = "c1"
    /\ "c1" \notin DOMAIN candidates_table
    /\ PhonePlain \in DOMAIN phone_to_candidate
    /\ phone_to_candidate[PhonePlain].candidate_id = "c1"

\* C28: with a webhook secret configured, an inbound request whose
\* X-Webhook-Secret header is missing or different is answered 401, its
\* body unread and no personalization in the answer; every other request,
\* and every request when no secret is configured, is accepted.
C28_SecretChecked ==
    Handled("twilio_inbound") =>
        IF /\ IsSet(environ.ELEVENLABS_WEBHOOK_SECRET)
           /\ request.x_webhook_secret # environ.ELEVENLABS_WEBHOOK_SECRET
        THEN /\ response = [status |-> 401, detail |-> "Invalid webhook secret"]
             /\ ~request.body_read
        ELSE /\ response.status = 200
             /\ request.body_read

\* a request without the header, from a registered number, was rejected
C28_Witness ==
    /\ Handled("twilio_inbound")
    /\ environ.ELEVENLABS_WEBHOOK_SECRET = Some(Secret)
    /\ IsNone(request.x_webhook_secret)
    /\ DigitsAndPlus(CallerOf(request)) \in DOMAIN phone_to_candidate
    /\ response.status = 401
    /\ "body" \notin DOMAIN response

\* C29: an initiate_call request naming a candidate that does not exist
\* is answered 404 'Candidate not found', whether or not the job exists;
\* one naming an existing candidate and a job that does not exist is
\* answered 404 'Job not found'; neither registers a phone, places a call,
\* stores a call record or changes anything else.
C29_NotFoundLeavesState ==
    [][(DOMAIN request' # {} /\ request'.op = "initiate_call") =>
           LET candidate_missing == request'.args.candidate_id \notin DOMAIN candidates_table
               job_missing == request'.args.job_id \notin DOMAIN jobs_table
           IN  /\ candidate_missing => response' = [status |-> 404, detail |-> "Candidate not found"]
               /\ (job_missing /\ ~candidate_missing) => response' = [status |-> 404, detail |-> "Job not found"]
               /\ (candidate_missing \/ job_missing) =>
                      UNCHANGED <<phone_to_candidate, outbound, calls_table, candidates_table, jobs_table, environ>>
      ]_vars

\* neither the candidate nor the job of the request exists, another
\* candidate and another job do: the answer names the candidate
C29_Witness ==
    /\ Handled("initiate_call")
    /\ request.args.candidate_id \notin DOMAIN candidates_table
    /\ request.args.job_id \notin DOMAIN jobs_table
    /\ DOMAIN candidates_table # {}
    /\ DOMAIN jobs_table # {}
    /\ response = [status |-> 404, detail |-> "Candidate not found"]

====
